---- MODULE Spec2Model ----
(***************************************************************************)
(* The sale entry form of src/components/product-entry-form.tsx            *)
(* (ProductEntryForm): the React state of the component, its event         *)
(* handlers, the price/discount recompute effect and the asynchronous      *)
(* submission (store write, then invoice notifier); and the two pages      *)
(* that subscribe to the node 'sell': the sales page                       *)
(* (src/unnamed/part_001) with its filter and its per-product list, and    *)
(* the dashboard (src/unnamed/part_002) with its filters, statistics,      *)
(* monthly series, per-product rollup and report tables.                   *)
(*                                                                         *)
(* Amounts are integers in mills (1/1000 of a rupee), so that toFixed(2)   *)
(* is a real rounding step.  A numeric text ('' or the decimal text of a   *)
(* number) is the empty tuple or the one-element tuple of the number it    *)
(* denotes; free text (search term, phone number, names) is a tuple of     *)
(* one-character strings.  The arithmetic is exact: the binary rounding    *)
(* of JavaScript numbers is not modelled, and the entered amounts avoid    *)
(* exact half-cent ties, where toFixed depends on it.                      *)
(***************************************************************************)
EXTENDS Integers, Sequences, FiniteSets, TLC

\* ------------------------------------------------------------- bounds

\* Largest quantity typed into the quantity field.
MaxQuantity == 2

\* Number of sales the store accepts before the model stops submitting.
MaxSales == 1

\* Largest number of records in a snapshot of the 'sell' node.
MaxRecords == 2

\* ------------------------------------------------------------- values

EmptyText == <<>>

Num(n) == <<n>>

\* The catalog entries read from 'servicedetails' (prices in mills): one
\* priced 5.00, one priced 0.004, below half a cent.
Visa == [id |-> "p1", name |-> <<"V", "i", "s", "a">>, description |-> "visa", price |-> 5000]

Gift == [id |-> "p2", name |-> <<"G", "i", "f", "t">>, description |-> "gift", price |-> 4]

Catalog == <<Visa, Gift>>

\* selectedProduct === null
NoProduct == [id |-> "", name |-> <<>>, description |-> "", price |-> 0]

\* sellData.phoneNumber === null
NullPhone == <<"null">>

\* message === null
NoMessage == [type |-> "none", text |-> ""]

MsgNoProduct == [type |-> "error", text |-> "No product selected to sell."]

MsgPriceError == [type |-> "error", text |-> "Final price calculation error. Please review the inputs."]

MsgSold == [type |-> "success", text |-> "Product sold successfully. Invoice sent via WhatsApp (if number provided)."]

MsgSellFailed == [type |-> "error", text |-> "Failed to sell product."]

MsgInvoiceFailed == [type |-> "error", text |-> "Failed to send WhatsApp invoice message."]

\* What the user types: search terms, quantities, discounts, phone numbers.
SearchTerms == {<<>>, <<" ">>, <<"I">>}

QuantityTexts == {EmptyText} \cup {Num(n) : n \in 0..MaxQuantity}

DiscountTexts == {EmptyText, Num(1234), Num(6000), Num(-1000)}

PhoneTexts == {<<>>, <<" ">>, <<"9", "1">>}

PaymentMethods == {"cash", "online"}

\* The answers of the invoice endpoint: success, success:false, an axios
\* (transport) error, any other exception.
NotifierFailures == {"nonsuccess", "transport", "exception"}

NotifierOutcomes == {"ok"} \cup NotifierFailures

\* The sold-at times of the records the pages read: Tuesday 2026-03-03 at
\* noon; the Sunday before at 00:00:00.000; the Saturday before that at
\* 23:59:59.999; the Sunday of that week at 00:00:00.000; the Saturday one
\* week earlier at 23:59:59.999; the Sunday of the following week; and the
\* same Tuesday one year earlier.
SoldAtTexts ==
    {<<2026, 3, 3, 43200000>>, <<2026, 3, 1, 0>>, <<2026, 2, 28, 86399999>>,
     <<2026, 2, 22, 0>>, <<2026, 2, 21, 86399999>>, <<2026, 3, 8, 0>>,
     <<2025, 3, 3, 43200000>>}

\* The values under 'sell': a cash sale of one Visa, an online sale of two
\* Gift, and a cash sale of a Tour written before sales carried a quantity.
\* A numeric field of a stored value is <<n>>, or <<>> when the value has
\* no such field.
SellValue(kind, soldAt) ==
    IF kind = "visa"
    THEN [productId |-> "p1", name |-> <<"V", "i", "s", "a">>, quantity |-> <<1>>,
          finalPriceCharged |-> <<3770>>, discount |-> <<1230>>,
          paymentMethod |-> "cash", soldAt |-> soldAt]
    ELSE IF kind = "gift"
    THEN [productId |-> "p2", name |-> <<"G", "i", "f", "t">>, quantity |-> <<2>>,
          finalPriceCharged |-> <<10000>>, discount |-> <<0>>,
          paymentMethod |-> "online", soldAt |-> soldAt]
    ELSE [productId |-> "p3", name |-> <<"T", "o", "u", "r">>, quantity |-> <<>>,
          finalPriceCharged |-> <<3770>>, discount |-> <<1230>>,
          paymentMethod |-> "cash", soldAt |-> soldAt]

SellValues ==
    {SellValue(kind, soldAt) : kind \in {"visa", "gift"}, soldAt \in SoldAtTexts}
    \cup {SellValue("tour", <<2026, 3, 3, 43200000>>)}

\* The views that subscribe to 'sell'.
Views == {"sales", "dashboard"}

\* What the user picks in the inputs of the sales page.
DateInputTexts == {<<>>, <<2026, 3, 3>>, <<2026, 2, 28>>}

MonthInputTexts == {<<>>, <<2026, 3>>, <<2025, 3>>}

YearInputTexts == {<<>>, <<2026>>, <<2025>>}

\* What the user picks in the selects and date pickers of the dashboard.
MonthChoices == {"All", "February", "March"}

YearChoices == {"All", "2026", "2025"}

DayChoices == {"All", "3", "28", "31"}

WeekChoices == {"All", "This Week", "Last Week"}

\* The days offered by the date pickers, and the times of day of the Date
\* a picker hands over.
PickerDays == {<<2026, 2, 22>>, <<2026, 2, 28>>, <<2026, 3, 1>>}

PickerTimes == {0, 43200000}

\* ------------------------------------------------- dates of the pages

\* Milliseconds of a day: 00:00:00.000, 10:00, 12:00, 23:59:59.999.
MsMidnight == 0

MsMorning == 36000000

MsNoon == 43200000

MsDayEnd == 86399999

\* An ISO date-time text is the tuple <<year, month, day, ms of the day>>,
\* a date text <<year, month, day>>, a month text <<year, month>>, a year
\* text <<year>>; a Date is the day number since 1970-01-01 and the ms of
\* that day.  Local time is UTC.
DaysFromCivil(y, m, d) ==
    LET yy == IF m <= 2 THEN y - 1 ELSE y
        era == yy \div 400
        yoe == yy - era * 400
        mp == IF m > 2 THEN m - 3 ELSE m + 9
        doy == (153 * mp + 2) \div 5 + d - 1
        doe == yoe * 365 + yoe \div 4 - yoe \div 100 + doy
    IN era * 146097 + doe - 719468

CivilFromDays(z) ==
    LET zz == z + 719468
        era == zz \div 146097
        doe == zz - era * 146097
        yoe == (doe - doe \div 1460 + doe \div 36524 - doe \div 146096) \div 365
        doy == doe - (365 * yoe + yoe \div 4 - yoe \div 100)
        mp == (5 * doy + 2) \div 153
        d == doy - (153 * mp + 2) \div 5 + 1
        m == IF mp < 10 THEN mp + 3 ELSE mp - 9
        y == yoe + era * 400 + (IF m <= 2 THEN 1 ELSE 0)
    IN [year |-> y, month |-> m, date |-> d]

\* new Date(year, monthIndex, day) and new Date(text) / parseISO(text)
NewDate(y, monthIndex, d) == [day |-> DaysFromCivil(y, monthIndex + 1, d), ms |-> 0]

parseISO(text) ==
    [day |-> DaysFromCivil(text[1], text[2], IF Len(text) >= 3 THEN text[3] ELSE 1),
     ms |-> IF Len(text) >= 4 THEN text[4] ELSE 0]

\* The calendar dates of the days 2025-01-01 to 2026-12-31, computed once.
CalendarDays == DaysFromCivil(2025, 1, 1)..DaysFromCivil(2026, 12, 31)

CivilTable == [z \in CalendarDays |-> CivilFromDays(z)]

getFullYear(t) == CivilTable[t.day].year

\* Date.prototype.getMonth: 0 is January
getMonth(t) == CivilTable[t.day].month - 1

getDate(t) == CivilTable[t.day].date

\* Date.prototype.getDay: 0 is Sunday (1970-01-01 was a Thursday)
getDay(t) == (t.day + 4) % 7

\* date.setDate(n): day n of the month of the date, n below 1 or above the
\* length of the month running into the neighbouring months
setDate(t, n) == [day |-> t.day - getDate(t) + n, ms |-> t.ms]

\* date.setHours(h, m, s, ms)
setHours(t, msOfDay) == [day |-> t.day, ms |-> msOfDay]

\* a <= b on Dates
DateLeq(a, b) == a.day < b.day \/ (a.day = b.day /\ a.ms <= b.ms)

DateLess(a, b) == a.day < b.day \/ (a.day = b.day /\ a.ms < b.ms)

isSameDay(a, b) == a.day = b.day

isSameMonth(a, b) == getFullYear(a) = getFullYear(b) /\ getMonth(a) = getMonth(b)

isSameYear(a, b) == getFullYear(a) = getFullYear(b)

\* new Date() at the renders of the pages: first Sunday 2026-03-01 at
\* 00:00:00.000, later Tuesday 2026-03-03 at 10:00.
Clocks == <<parseISO(<<2026, 3, 1, 0>>), parseISO(<<2026, 3, 3, 36000000>>)>>

\* startDate === null
NullDate == [day |-> -1, ms |-> 0]

\* ------------------------------------------------------------ helpers

\* Number.prototype.toFixed(2) on an amount in mills: the nearest whole
\* number of cents, a tie going away from zero; the result in mills.
ToFixed2(v) ==
    IF v >= 0 THEN ((v + 5) \div 10) * 10
    ELSE -(((-v + 5) \div 10) * 10)

formatCurrency(value) == Num(ToFixed2(value))

\* isNaN(parseFloat(text))
IsNaNText(text) == text = EmptyText

\* parseFloat(text) of a text that is a number
parseFloat(text) == text[1]

\* parseFloat(text) || 0
ParseFloatOr0(text) == IF IsNaNText(text) THEN 0 ELSE parseFloat(text)

\* String.prototype.trim
RECURSIVE TrimLeft(_)
TrimLeft(s) ==
    IF s # <<>> /\ Head(s) = " " THEN TrimLeft(Tail(s)) ELSE s

RECURSIVE TrimRight(_)
TrimRight(s) ==
    IF s # <<>> /\ s[Len(s)] = " " THEN TrimRight(SubSeq(s, 1, Len(s) - 1)) ELSE s

Trim(s) == TrimRight(TrimLeft(s))

LowerChar(c) ==
    CASE c = "V" -> "v"
      [] c = "G" -> "g"
      [] c = "I" -> "i"
      [] OTHER -> c

toLowerCase(s) == [i \in 1..Len(s) |-> LowerChar(s[i])]

\* String.prototype.includes
Includes(hay, needle) ==
    \E i \in 0..(Len(hay) - Len(needle)) :
        SubSeq(hay, i + 1, i + Len(needle)) = needle

Max(a, b) == IF a >= b THEN a ELSE b

Last(s) == s[Len(s)]

\* -------------------------------------------------------------- state

VARIABLES
    searchTerm, products, filteredProducts, selectedProduct, unitPrice,
    quantity, totalPriceCalculated, discountInput, finalPriceCharged,
    phoneNumber, paymentMethod, message, showSuggestions, isLoading,
    effectDeps, fetchState, pc, sellData, now, store, posts, notifierAnswer,
    clock, sellList, filter, selectedDateInput, selectedMonthInput,
    selectedYearInput, sells, filteredMonth, filteredYear, filteredDay,
    filteredWeek, startDate, endDate,
    sortConfig, node, listeners, mounted, salesToday, dashToday

formVars ==
    <<searchTerm, products, filteredProducts, selectedProduct, unitPrice,
      quantity, totalPriceCalculated, discountInput, finalPriceCharged,
      phoneNumber, paymentMethod, message, showSuggestions, isLoading>>

envVars == <<effectDeps, fetchState, pc, sellData, now, store, posts, notifierAnswer>>

\* The state of the sales page (ServiceSalesPage): its fields, and the date
\* that was current when its useMemo filteredSales last computed its value.
salesVars ==
    <<sellList, filter, selectedDateInput, selectedMonthInput, selectedYearInput,
      salesToday>>

\* The state of the dashboard (DashboardContent): its fields, the
\* sortConfig of each of its two report tables, and the date that was
\* current when its useMemos filteredSells and currentViewSells last
\* computed their values.
dashVars ==
    <<sells, filteredMonth, filteredYear, filteredDay, filteredWeek, startDate, endDate,
      sortConfig, dashToday>>

\* The node 'sell' of the database as the pages receive it, the views whose
\* onValue callback is registered on it, and the views that are mounted.
feedVars == <<node, listeners, mounted>>

\* The pages that read the store, and the clock they read.
pageVars == <<clock, salesVars, dashVars, feedVars>>

vars == <<formVars, envVars, pageVars>>

\* The fields the form shows for the draft of a sale.
draftVars ==
    <<selectedProduct, unitPrice, quantity, totalPriceCalculated,
      discountInput, finalPriceCharged, phoneNumber, paymentMethod>>

NoSellData == [productId |-> "", name |-> <<>>, description |-> "",
               unitPrice |-> 0, quantity |-> 0, totalPriceCalculated |-> 0,
               finalPriceCharged |-> 0, discount |-> 0, phoneNumber |-> NullPhone,
               soldAt |-> 0, paymentMethod |-> "cash"]

\* The dependency list of the recompute effect.
Deps == <<selectedProduct, unitPrice, quantity, discountInput>>

\* The effect has yet to run for the committed render.
EffectPending == effectDeps # Deps

\* The next event is handled: React has flushed the effect of the last
\* render, and no handler is in the middle of a task.
Settled == ~EffectPending /\ pc # "answered"

Init ==
    /\ searchTerm = <<>>
    /\ products = <<>>
    /\ filteredProducts = <<>>
    /\ selectedProduct = NoProduct
    /\ unitPrice = EmptyText
    /\ quantity = 1
    /\ totalPriceCalculated = 0
    /\ discountInput = EmptyText
    /\ finalPriceCharged = EmptyText
    /\ phoneNumber = <<>>
    /\ paymentMethod = "cash"
    /\ message = NoMessage
    /\ showSuggestions = FALSE
    /\ isLoading = FALSE
    /\ effectDeps = <<NoProduct, EmptyText, 1, EmptyText>>
    /\ fetchState = "pending"
    /\ pc = "idle"
    /\ sellData = NoSellData
    /\ now = 1
    /\ store = <<>>
    /\ posts = <<>>
    /\ notifierAnswer = "none"
    /\ clock = Clocks[1]
    /\ sellList = <<>>
    /\ filter = "today"
    /\ selectedDateInput = <<>>
    /\ selectedMonthInput = <<>>
    /\ selectedYearInput = <<>>
    /\ sells = <<>>
    /\ filteredMonth = "All"
    /\ filteredYear = "All"
    /\ filteredDay = "All"
    /\ filteredWeek = "All"
    /\ startDate = NullDate
    /\ endDate = NullDate
    /\ sortConfig = [table \in {"totalQuantity", "totalAmount"} |->
                        [key |-> table, direction |-> "descending"]]
    /\ salesToday = Clocks[1]
    /\ dashToday = Clocks[1]
    /\ node = <<>>
    /\ listeners = Views
    /\ mounted = Views

\* ------------------------------------------------------ catalog fetch

\* fetchProducts: the one-shot read of 'servicedetails' at mount.
FetchProducts(outcome) ==
    /\ fetchState = "pending"
    /\ Settled
    /\ fetchState' = "done"
    /\ products' = IF outcome = "exists" THEN Catalog
                   ELSE IF outcome = "empty" THEN <<>>
                   ELSE products
    /\ UNCHANGED <<searchTerm, filteredProducts, selectedProduct, unitPrice,
                   quantity, totalPriceCalculated, discountInput, finalPriceCharged,
                   phoneNumber, paymentMethod, message, showSuggestions, isLoading>>
    /\ UNCHANGED <<effectDeps, pc, sellData, now, store, posts, notifierAnswer>>
    /\ UNCHANGED pageVars

\* --------------------------------------------------- recompute effect

\* let finalPrice = calculatedTotal - discountVal; if (finalPrice < 0) finalPrice = 0
EffectFinalPrice(calculatedTotal, discountVal) ==
    Max(calculatedTotal - discountVal, 0)

\* if (finalPrice < 0) setDiscountInput(formatCurrency(calculatedTotal))
EffectDiscountNoClamp(calculatedTotal, discountVal, discount) == discount

EffectDiscount(calculatedTotal, discountVal, discount) ==
    IF calculatedTotal - discountVal < 0
    THEN formatCurrency(calculatedTotal)
    ELSE discount

\* The effect on [selectedProduct, unitPrice, quantity, discountInput].
RecomputeEffect ==
    /\ EffectPending
    /\ effectDeps' = Deps
    /\ IF selectedProduct # NoProduct /\ unitPrice # EmptyText
       THEN LET priceVal == parseFloat(unitPrice)
                calculatedTotal == priceVal * quantity
                discountVal == ParseFloatOr0(discountInput)
            IN /\ totalPriceCalculated' = calculatedTotal
               /\ discountInput' = EffectDiscount(calculatedTotal, discountVal, discountInput)
               /\ finalPriceCharged' =
                      formatCurrency(EffectFinalPrice(calculatedTotal, discountVal))
       ELSE /\ totalPriceCalculated' = 0
            /\ discountInput' = EmptyText
            /\ finalPriceCharged' = EmptyText
    /\ UNCHANGED <<searchTerm, products, filteredProducts, selectedProduct,
                   unitPrice, quantity, phoneNumber, paymentMethod, message,
                   showSuggestions, isLoading>>
    /\ UNCHANGED <<fetchState, pc, sellData, now, store, posts, notifierAnswer>>
    /\ UNCHANGED pageVars

\* ----------------------------------------------------------- handlers

handleSearchChange(value) ==
    /\ Settled
    /\ searchTerm' = value
    /\ IF Trim(value) = <<>>
       THEN /\ filteredProducts' = <<>>
            /\ showSuggestions' = FALSE
       ELSE /\ filteredProducts' =
                   SelectSeq(products,
                             LAMBDA p : Includes(toLowerCase(p.name), toLowerCase(value)))
            /\ showSuggestions' = TRUE
    /\ UNCHANGED <<products, selectedProduct, unitPrice, quantity,
                   totalPriceCalculated, discountInput, finalPriceCharged,
                   phoneNumber, paymentMethod, message, isLoading>>
    /\ UNCHANGED envVars
    /\ UNCHANGED pageVars

\* onFocus of the search input
SearchFocus ==
    /\ Settled
    /\ showSuggestions' = (Len(filteredProducts) > 0)
    /\ UNCHANGED <<searchTerm, products, filteredProducts, selectedProduct,
                   unitPrice, quantity, totalPriceCalculated, discountInput,
                   finalPriceCharged, phoneNumber, paymentMethod, message, isLoading>>
    /\ UNCHANGED envVars
    /\ UNCHANGED pageVars

\* The suggestion list is rendered.
SuggestionsShown == showSuggestions /\ Len(filteredProducts) > 0

\* handleSelectProduct without setQuantity(1) and setDiscountInput('').
handleSelectProductKeepsDraft(product) ==
    /\ selectedProduct' = product
    /\ unitPrice' = formatCurrency(product.price)
    /\ searchTerm' = product.name
    /\ showSuggestions' = FALSE
    /\ message' = NoMessage
    /\ UNCHANGED <<products, filteredProducts, quantity, discountInput,
                   totalPriceCalculated, finalPriceCharged, phoneNumber,
                   paymentMethod, isLoading>>
    /\ UNCHANGED envVars

handleSelectProduct(product) ==
    /\ selectedProduct' = product
    /\ unitPrice' = formatCurrency(product.price)
    /\ quantity' = 1
    /\ discountInput' = EmptyText
    /\ searchTerm' = product.name
    /\ showSuggestions' = FALSE
    /\ message' = NoMessage
    /\ UNCHANGED <<products, filteredProducts, totalPriceCalculated,
                   finalPriceCharged, phoneNumber, paymentMethod, isLoading>>
    /\ UNCHANGED envVars

\* A click on one entry of the suggestion list.
SelectSuggestion ==
    /\ Settled
    /\ SuggestionsShown
    /\ \E i \in 1..Len(filteredProducts) : handleSelectProduct(filteredProducts[i])
    /\ UNCHANGED pageVars

\* parseInt(text, 10) of a text that is a number
parseInt(text) == text[1]

\* Math.max(1, isNaN(value) ? 1 : value) of value = parseInt(text, 10)
NewQuantity(text) == Max(1, IF IsNaNText(text) THEN 1 ELSE parseInt(text))

handleQuantityChangeKeepsDiscount(text) ==
    /\ quantity' = Max(1, IF IsNaNText(text) THEN 1 ELSE text[1])
    /\ UNCHANGED <<searchTerm, products, filteredProducts, selectedProduct,
                   unitPrice, totalPriceCalculated, discountInput, finalPriceCharged,
                   phoneNumber, paymentMethod, message, showSuggestions, isLoading>>
    /\ UNCHANGED envVars

handleQuantityChange(text) ==
    /\ quantity' = NewQuantity(text)
    /\ discountInput' = EmptyText
    /\ UNCHANGED <<searchTerm, products, filteredProducts, selectedProduct,
                   unitPrice, totalPriceCalculated, finalPriceCharged,
                   phoneNumber, paymentMethod, message, showSuggestions, isLoading>>
    /\ UNCHANGED envVars

QuantityInput ==
    /\ Settled
    /\ selectedProduct # NoProduct
    /\ \E text \in QuantityTexts : handleQuantityChange(text)
    /\ UNCHANGED pageVars

handleDiscountChange(value) ==
    LET calculatedTotal == totalPriceCalculated
        valid == ~IsNaNText(value) /\ parseFloat(value) >= 0
    IN /\ discountInput' = value
       /\ finalPriceCharged' =
              IF calculatedTotal > 0 /\ valid
              THEN formatCurrency(Max(calculatedTotal - parseFloat(value), 0))
              ELSE IF ~valid
                   THEN formatCurrency(calculatedTotal)
                   ELSE finalPriceCharged
       /\ UNCHANGED <<searchTerm, products, filteredProducts, selectedProduct,
                      unitPrice, quantity, totalPriceCalculated, phoneNumber,
                      paymentMethod, message, showSuggestions, isLoading>>
       /\ UNCHANGED envVars

DiscountInput ==
    /\ Settled
    /\ selectedProduct # NoProduct
    /\ \E value \in DiscountTexts : handleDiscountChange(value)
    /\ UNCHANGED pageVars

PhoneInput ==
    /\ Settled
    /\ selectedProduct # NoProduct
    /\ \E value \in PhoneTexts : phoneNumber' = value
    /\ UNCHANGED <<searchTerm, products, filteredProducts, selectedProduct,
                   unitPrice, quantity, totalPriceCalculated, discountInput,
                   finalPriceCharged, paymentMethod, message, showSuggestions, isLoading>>
    /\ UNCHANGED envVars
    /\ UNCHANGED pageVars

PaymentInput ==
    /\ Settled
    /\ selectedProduct # NoProduct
    /\ \E method \in PaymentMethods : paymentMethod' = method
    /\ UNCHANGED <<searchTerm, products, filteredProducts, selectedProduct,
                   unitPrice, quantity, totalPriceCalculated, discountInput,
                   finalPriceCharged, phoneNumber, message, showSuggestions, isLoading>>
    /\ UNCHANGED envVars
    /\ UNCHANGED pageVars

\* --------------------------------------------------------- submission

\* The Sell button is rendered with the rest of the entry form.
SellButtonShown == selectedProduct # NoProduct

\* disabled={!finalPriceCharged || parseFloat(finalPriceCharged) < 0}
SellButtonDisabledIgnoresLoading ==
    IF finalPriceCharged = EmptyText THEN TRUE
    ELSE parseFloat(finalPriceCharged) < 0

\* disabled={isLoading || !finalPriceCharged || parseFloat(finalPriceCharged) < 0}
SellButtonDisabled ==
    IF isLoading \/ finalPriceCharged = EmptyText THEN TRUE
    ELSE parseFloat(finalPriceCharged) < 0

\* isNaN(finalPriceVal) || finalPriceVal < 0
FinalPriceInvalid ==
    IF IsNaNText(finalPriceCharged) THEN TRUE
    ELSE parseFloat(finalPriceCharged) < 0

RecordedDiscountNoFloor(finalDiscount) == finalDiscount

\* discount: finalDiscount > 0 ? finalDiscount : 0
RecordedDiscount(finalDiscount) == IF finalDiscount > 0 THEN finalDiscount ELSE 0

\* phoneNumber.trim() || null
RecordedPhone(phone) == IF Trim(phone) = <<>> THEN NullPhone ELSE Trim(phone)

\* The SellData record handleSell builds from the committed render.
BuildSellData ==
    LET finalPriceVal == parseFloat(finalPriceCharged)
        unitPriceVal == parseFloat(unitPrice)
        calculatedTotal == unitPriceVal * quantity
        finalDiscount == calculatedTotal - finalPriceVal
    IN [productId |-> selectedProduct.id,
        name |-> selectedProduct.name,
        description |-> selectedProduct.description,
        unitPrice |-> unitPriceVal,
        quantity |-> quantity,
        totalPriceCalculated |-> calculatedTotal,
        finalPriceCharged |-> finalPriceVal,
        discount |-> RecordedDiscount(finalDiscount),
        phoneNumber |-> RecordedPhone(phoneNumber),
        soldAt |-> now,
        paymentMethod |-> paymentMethod]

\* handleSell with setIsLoading(true) moved ahead of the validation.
handleSellLoadsFirst ==
    /\ selectedProduct = NoProduct \/ FinalPriceInvalid
    /\ message' = (IF selectedProduct = NoProduct THEN MsgNoProduct ELSE MsgPriceError)
    /\ isLoading' = TRUE
    /\ UNCHANGED <<searchTerm, products, filteredProducts, selectedProduct,
                   unitPrice, quantity, totalPriceCalculated, discountInput,
                   finalPriceCharged, phoneNumber, paymentMethod, showSuggestions>>
    /\ UNCHANGED envVars

\* handleSell up to its first await: the two validation returns, or the
\* start of the store write.
handleSell ==
    \/ /\ selectedProduct = NoProduct
       /\ message' = MsgNoProduct
       /\ UNCHANGED <<searchTerm, products, filteredProducts, selectedProduct,
                      unitPrice, quantity, totalPriceCalculated, discountInput,
                      finalPriceCharged, phoneNumber, paymentMethod,
                      showSuggestions, isLoading>>
       /\ UNCHANGED envVars
    \/ /\ selectedProduct # NoProduct
       /\ FinalPriceInvalid
       /\ message' = MsgPriceError
       /\ UNCHANGED <<searchTerm, products, filteredProducts, selectedProduct,
                      unitPrice, quantity, totalPriceCalculated, discountInput,
                      finalPriceCharged, phoneNumber, paymentMethod,
                      showSuggestions, isLoading>>
       /\ UNCHANGED envVars
    \/ /\ selectedProduct # NoProduct
       /\ ~FinalPriceInvalid
       /\ Len(store) < MaxSales
       /\ isLoading' = TRUE
       /\ sellData' = BuildSellData
       /\ pc' = "writing"
       /\ notifierAnswer' = "none"
       /\ UNCHANGED <<searchTerm, products, filteredProducts, selectedProduct,
                      unitPrice, quantity, totalPriceCalculated, discountInput,
                      finalPriceCharged, phoneNumber, paymentMethod, message,
                      showSuggestions>>
       /\ UNCHANGED <<effectDeps, fetchState, now, store, posts>>

\* A click on the Sell button.
SellClick ==
    /\ Settled
    /\ SellButtonShown
    /\ ~SellButtonDisabled
    /\ handleSell
    /\ UNCHANGED pageVars

\* sell() invoked on a render that offers no enabled Sell button for it:
\* no product is selected, or the final price is not a valid number.
SellCall ==
    /\ pc = "idle"
    /\ IF selectedProduct = NoProduct THEN TRUE ELSE FinalPriceInvalid
    /\ handleSell
    /\ UNCHANGED pageVars

capitalizeFirstLetter(str) == IF str = "cash" THEN "Cash" ELSE "Online"

\* The invoice text, as the fields it is built from.
InvoiceMessage(data) ==
    [name |-> data.name,
     unitPrice |-> formatCurrency(data.unitPrice),
     quantity |-> data.quantity,
     total |-> formatCurrency(data.totalPriceCalculated),
     discount |-> formatCurrency(data.discount),
     final |-> formatCurrency(data.finalPriceCharged),
     paymentMethod |-> capitalizeFirstLetter(data.paymentMethod),
     date |-> data.soldAt]

\* The payload sendWhatsAppMessage posts to /api/send-whatsapp.
Payload(data, phone) ==
    [number |-> phone, message |-> InvoiceMessage(data), type |-> "media"]

\* The message sendWhatsAppMessage leaves once the endpoint has answered.
MessageAfterSend(answer) ==
    IF answer \in NotifierFailures THEN MsgInvoiceFailed ELSE message

\* The form reset without setPhoneNumber('').
FinishSaleKeepsPhone ==
    /\ message' = MsgSold
    /\ selectedProduct' = NoProduct
    /\ unitPrice' = EmptyText
    /\ quantity' = 1
    /\ totalPriceCalculated' = 0
    /\ discountInput' = EmptyText
    /\ finalPriceCharged' = EmptyText
    /\ searchTerm' = <<>>
    /\ paymentMethod' = "cash"
    /\ isLoading' = FALSE
    /\ pc' = "idle"
    /\ sellData' = NoSellData
    /\ UNCHANGED <<products, filteredProducts, showSuggestions, phoneNumber>>
    /\ UNCHANGED <<effectDeps, fetchState, now>>

\* handleSell after its awaits: the success message and the form reset,
\* then the finally block.
FinishSale ==
    /\ message' = MsgSold
    /\ selectedProduct' = NoProduct
    /\ unitPrice' = EmptyText
    /\ quantity' = 1
    /\ totalPriceCalculated' = 0
    /\ discountInput' = EmptyText
    /\ finalPriceCharged' = EmptyText
    /\ searchTerm' = <<>>
    /\ phoneNumber' = <<>>
    /\ paymentMethod' = "cash"
    /\ isLoading' = FALSE
    /\ pc' = "idle"
    /\ sellData' = NoSellData
    /\ UNCHANGED <<products, filteredProducts, showSuggestions>>
    /\ UNCHANGED <<effectDeps, fetchState, now>>

\* The invoice posted without awaiting it: handleSell finishes at once.
WriteResolvesFireAndForget ==
    /\ pc = "writing"
    /\ Settled
    /\ store' = Append(store, sellData)
    /\ posts' = IF sellData.phoneNumber # NullPhone
                THEN Append(posts, Payload(sellData, sellData.phoneNumber))
                ELSE posts
    /\ FinishSale
    /\ UNCHANGED notifierAnswer
    /\ UNCHANGED pageVars

\* The invoice posted whether or not a phone number was given.
WriteResolvesAlwaysPosts ==
    /\ pc = "writing"
    /\ Settled
    /\ store' = Append(store, sellData)
    /\ posts' = Append(posts, Payload(sellData, sellData.phoneNumber))
    /\ pc' = "sending"
    /\ UNCHANGED formVars
    /\ UNCHANGED <<effectDeps, fetchState, sellData, now, notifierAnswer>>
    /\ UNCHANGED pageVars

\* await set(newSellRef, sellData) resolves: the record is in the store.
\* With a phone number handleSell goes on to post the invoice and awaits
\* the answer; without one it finishes.
WriteResolves ==
    /\ pc = "writing"
    /\ Settled
    /\ store' = Append(store, sellData)
    /\ IF sellData.phoneNumber # NullPhone
       THEN /\ posts' = Append(posts, Payload(sellData, sellData.phoneNumber))
            /\ pc' = "sending"
            /\ UNCHANGED formVars
            /\ UNCHANGED <<effectDeps, fetchState, sellData, now, notifierAnswer>>
       ELSE /\ FinishSale
            /\ UNCHANGED <<posts, notifierAnswer>>
    /\ UNCHANGED pageVars

\* A catch block that also resets the form.
WriteRejectsResetsForm ==
    /\ pc = "writing"
    /\ Settled
    /\ FinishSale
    /\ UNCHANGED <<store, posts, notifierAnswer>>
    /\ UNCHANGED pageVars

\* The catch block without the finally block.
WriteRejectsKeepsLoading ==
    /\ pc = "writing"
    /\ Settled
    /\ message' = MsgSellFailed
    /\ pc' = "idle"
    /\ sellData' = NoSellData
    /\ UNCHANGED <<searchTerm, products, filteredProducts, selectedProduct,
                   unitPrice, quantity, totalPriceCalculated, discountInput,
                   finalPriceCharged, phoneNumber, paymentMethod, showSuggestions,
                   isLoading>>
    /\ UNCHANGED <<effectDeps, fetchState, now, store, posts, notifierAnswer>>
    /\ UNCHANGED pageVars

\* await set(newSellRef, sellData) rejects: the catch and finally blocks.
WriteRejects ==
    /\ pc = "writing"
    /\ Settled
    /\ message' = MsgSellFailed
    /\ isLoading' = FALSE
    /\ pc' = "idle"
    /\ sellData' = NoSellData
    /\ UNCHANGED <<searchTerm, products, filteredProducts, selectedProduct,
                   unitPrice, quantity, totalPriceCalculated, discountInput,
                   finalPriceCharged, phoneNumber, paymentMethod, showSuggestions>>
    /\ UNCHANGED <<effectDeps, fetchState, now, store, posts, notifierAnswer>>
    /\ UNCHANGED pageVars

\* The endpoint answers (or the post throws): sendWhatsAppMessage handles
\* every answer itself, sets its message on a failure and returns.  The
\* await in handleSell resumes in the same task, before any other event.
NotifierAnswers(answer) ==
    /\ pc = "sending"
    /\ Settled
    /\ notifierAnswer' = answer
    /\ message' = MessageAfterSend(answer)
    /\ pc' = "answered"
    /\ UNCHANGED <<searchTerm, products, filteredProducts, selectedProduct,
                   unitPrice, quantity, totalPriceCalculated, discountInput,
                   finalPriceCharged, phoneNumber, paymentMethod,
                   showSuggestions, isLoading>>
    /\ UNCHANGED <<effectDeps, fetchState, sellData, now, store, posts>>
    /\ UNCHANGED pageVars

\* sendWhatsAppMessage rethrowing its failure into handleSell's catch block.
SellResumesPropagates ==
    /\ pc = "answered"
    /\ IF notifierAnswer \in NotifierFailures
       THEN /\ message' = MsgSellFailed
            /\ isLoading' = FALSE
            /\ pc' = "idle"
            /\ sellData' = NoSellData
            /\ UNCHANGED <<searchTerm, products, filteredProducts, selectedProduct,
                           unitPrice, quantity, totalPriceCalculated, discountInput,
                           finalPriceCharged, phoneNumber, paymentMethod, showSuggestions>>
            /\ UNCHANGED <<effectDeps, fetchState, now>>
       ELSE FinishSale
    /\ notifierAnswer' = "none"
    /\ UNCHANGED <<store, posts>>
    /\ UNCHANGED pageVars

\* handleSell resumes after await sendWhatsAppMessage(...).
SellResumes ==
    /\ pc = "answered"
    /\ FinishSale
    /\ notifierAnswer' = "none"
    /\ UNCHANGED <<store, posts>>
    /\ UNCHANGED pageVars

\* --------------------------------------------------------- sales page

\* Number(value.quantity || 0): 0 for a field that is missing or 0
NumberOr0(field) == IF field = <<>> THEN 0 ELSE field[1]

\* The list the onValue callback builds from a snapshot: one entry per key,
\* in the order of the keys, with the numeric fields parsed.
SellListOf(data) ==
    [i \in 1..Len(data) |->
        [id |-> data[i].key,
         productId |-> data[i].value.productId,
         name |-> data[i].value.name,
         quantity |-> NumberOr0(data[i].value.quantity),
         finalPriceCharged |-> NumberOr0(data[i].value.finalPriceCharged),
         discount |-> NumberOr0(data[i].value.discount),
         paymentMethod |-> data[i].value.paymentMethod,
         soldAt |-> data[i].value.soldAt]]

\* snapshot.val() of the next delivery, as its entries in key order: null
\* (the empty tuple) once the node has been removed, the node without one
\* of its records, or the node with one more record under a key not in use
\* (the first of the keys 1..MaxRecords that is free).
NextSnapshots(data) ==
    LET free == {k \in 1..MaxRecords : \A i \in 1..Len(data) : data[i].key # k}
        keys == {k \in free : \A other \in free : k <= other}
    IN {<<>>}
       \cup {SelectSeq(data, LAMBDA entry : entry.key # data[i].key) : i \in 1..Len(data)}
       \cup {SelectSeq(data, LAMBDA entry : entry.key < key)
                 \o <<[key |-> key, value |-> value]>>
                 \o SelectSeq(data, LAMBDA entry : entry.key > key) :
             key \in keys, value \in SellValues}

\* The onValue callback of the sales page patching its list: the entries
\* of the snapshot, and behind them the entries it held under other keys.
SalesSnapshotMerges(data) ==
    /\ sellList' =
           SellListOf(data) \o
           SelectSeq(sellList, LAMBDA sale : \A i \in 1..Len(data) : data[i].key # sale.id)
    /\ salesToday' = clock
    /\ UNCHANGED <<filter, selectedDateInput, selectedMonthInput, selectedYearInput>>

\* The onValue callback of the sales page.  setSellData is given a new
\* array, a changed dependency of filteredSales, which the render that
\* follows computes again.
SalesSnapshot(data) ==
    /\ sellList' = SellListOf(data)
    /\ salesToday' = clock
    /\ UNCHANGED <<filter, selectedDateInput, selectedMonthInput, selectedYearInput>>

isToday(t) == isSameDay(t, clock)

\* sellData.filter((sale) => isToday(parseISO(sale.soldAt)))
TodaySales(list) == SelectSeq(list, LAMBDA sale : isToday(parseISO(sale.soldAt)))

\* The value the callback of the useMemo filteredSales computes from the
\* record list, the filter mode, the three inputs and the current date.
FilterSales(list, mode, dateInput, monthInput, yearInput, today) ==
    LET monthDate == parseISO(monthInput \o <<1>>)
        yearDate == NewDate(parseInt(yearInput), 0, 1)
        dayDate == parseISO(dateInput)
        todaySales ==
            SelectSeq(list, LAMBDA sale : isSameDay(parseISO(sale.soldAt), today))
        defaultToToday ==
            ~(\/ mode = "today"
              \/ mode = "month" /\ monthInput # <<>>
              \/ mode = "year" /\ yearInput # <<>>
              \/ mode = "day" /\ dateInput # <<>>
              \/ mode = "all")
        sales ==
            IF mode = "today" THEN todaySales
            ELSE IF mode = "month" /\ monthInput # <<>>
            THEN SelectSeq(list, LAMBDA sale : isSameMonth(parseISO(sale.soldAt), monthDate))
            ELSE IF mode = "year" /\ yearInput # <<>>
            THEN SelectSeq(list, LAMBDA sale : isSameYear(parseISO(sale.soldAt), yearDate))
            ELSE IF mode = "day" /\ dateInput # <<>>
            THEN SelectSeq(list, LAMBDA sale : isSameDay(parseISO(sale.soldAt), dayDate))
            ELSE IF mode = "all" THEN list
            ELSE todaySales
        inputCleared ==
            \/ mode = "day" /\ dateInput = <<>>
            \/ mode = "month" /\ monthInput = <<>>
            \/ mode = "year" /\ yearInput = <<>>
    IN IF ~defaultToToday /\ inputCleared THEN <<>> ELSE sales

\* The useMemo filteredSales of the sales page: the value computed by the
\* last render in which one of [sellData, filter, selectedDateInput,
\* selectedMonthInput, selectedYearInput] had changed, with the date of
\* that render for today.
filteredSales ==
    FilterSales(sellList, filter, selectedDateInput, selectedMonthInput,
                selectedYearInput, salesToday)

\* One step of the forEach in productQuantities: sale.quantity || 1 is
\* added to the row of the productId of the sale, or starts its row.
\* Object.values lists the rows in the order in which they were started.
AddToCount(acc, sale) ==
    LET qty == IF sale.quantity = 0 THEN 1 ELSE sale.quantity
    IN IF \E i \in 1..Len(acc) : acc[i].productId = sale.productId
       THEN [i \in 1..Len(acc) |->
                IF acc[i].productId = sale.productId
                THEN [acc[i] EXCEPT !.quantity = acc[i].quantity + qty]
                ELSE acc[i]]
       ELSE Append(acc, [productId |-> sale.productId, name |-> sale.name,
                         quantity |-> qty])

RECURSIVE ProductCount(_)
ProductCount(list) ==
    IF list = <<>> THEN <<>>
    ELSE AddToCount(ProductCount(SubSeq(list, 1, Len(list) - 1)), list[Len(list)])

\* .sort((a, b) => b.quantity - a.quantity), which is stable
RECURSIVE SortByQuantity(_)
SortByQuantity(rows) ==
    IF rows = <<>> THEN <<>>
    ELSE LET sorted == SortByQuantity(SubSeq(rows, 1, Len(rows) - 1))
             row == rows[Len(rows)]
             k == Cardinality({i \in 1..Len(sorted) : sorted[i].quantity >= row.quantity})
         IN SubSeq(sorted, 1, k) \o <<row>> \o SubSeq(sorted, k + 1, Len(sorted))

\* The useMemo productQuantities: the rows of the per-product list.
productQuantities ==
    LET rows == SortByQuantity(ProductCount(filteredSales))
    IN [i \in 1..Len(rows) |-> [name |-> rows[i].name, quantity |-> rows[i].quantity]]

\* The figure under Total Items Sold:
\* filteredSales.reduce((total, sale) => total + sale.quantity, 0)
RECURSIVE SumSaleQuantity(_)
SumSaleQuantity(list) ==
    IF list = <<>> THEN 0
    ELSE SumSaleQuantity(SubSeq(list, 1, Len(list) - 1)) + list[Len(list)].quantity

totalItemsSold == SumSaleQuantity(filteredSales)

\* The render that follows a handler of the sales page: filteredSales is
\* computed again, reading the current date, if the filter mode or an input
\* has changed, and is the value held by the useMemo otherwise.
SalesRender ==
    salesToday' =
        IF <<filter', selectedDateInput', selectedMonthInput', selectedYearInput'>>
               # <<filter, selectedDateInput, selectedMonthInput, selectedYearInput>>
        THEN clock
        ELSE salesToday

\* The buttons Today's Sales and All Time Sales.
handleFilterChange(newFilter) ==
    /\ filter' = newFilter
    /\ selectedDateInput' = <<>>
    /\ selectedMonthInput' = <<>>
    /\ selectedYearInput' = <<>>
    /\ UNCHANGED sellList
    /\ SalesRender
    /\ UNCHANGED <<formVars, envVars, clock, dashVars, feedVars>>

\* onChange of the day input without setSelectedMonthInput("").
DayInputChangeKeepsMonth(value) ==
    /\ selectedDateInput' = value
    /\ filter' = "day"
    /\ selectedYearInput' = <<>>
    /\ UNCHANGED <<sellList, selectedMonthInput>>
    /\ SalesRender
    /\ UNCHANGED <<formVars, envVars, clock, dashVars, feedVars>>

\* onChange of the day input
DayInputChange(value) ==
    /\ selectedDateInput' = value
    /\ filter' = "day"
    /\ selectedMonthInput' = <<>>
    /\ selectedYearInput' = <<>>
    /\ UNCHANGED sellList
    /\ SalesRender
    /\ UNCHANGED <<formVars, envVars, clock, dashVars, feedVars>>

\* onChange of the month input
MonthInputChange(value) ==
    /\ selectedMonthInput' = value
    /\ filter' = "month"
    /\ selectedDateInput' = <<>>
    /\ selectedYearInput' = <<>>
    /\ UNCHANGED sellList
    /\ SalesRender
    /\ UNCHANGED <<formVars, envVars, clock, dashVars, feedVars>>

\* onChange of the year input
YearInputChange(value) ==
    /\ selectedYearInput' = value
    /\ filter' = "year"
    /\ selectedDateInput' = <<>>
    /\ selectedMonthInput' = <<>>
    /\ UNCHANGED sellList
    /\ SalesRender
    /\ UNCHANGED <<formVars, envVars, clock, dashVars, feedVars>>

\* The buttons Filter Day, Filter Month and Filter Year:
\* if (selectedDateInput) setFilter("day"), and so on.
FilterModeClick(mode) ==
    /\ filter' =
           IF \/ mode = "day" /\ selectedDateInput # <<>>
              \/ mode = "month" /\ selectedMonthInput # <<>>
              \/ mode = "year" /\ selectedYearInput # <<>>
           THEN mode
           ELSE filter
    /\ UNCHANGED <<sellList, selectedDateInput, selectedMonthInput, selectedYearInput>>
    /\ SalesRender
    /\ UNCHANGED <<formVars, envVars, clock, dashVars, feedVars>>

\* ---------------------------------------------------------- dashboard

MONTHS ==
    <<"January", "February", "March", "April", "May", "June", "July",
      "August", "September", "October", "November", "December">>

\* Array.prototype.indexOf: the 0-based position, -1 when absent
IndexOf(seq, x) ==
    IF \E i \in 1..Len(seq) : seq[i] = x
    THEN (CHOOSE i \in 1..Len(seq) : seq[i] = x /\ \A j \in 1..(i - 1) : seq[j] # x) - 1
    ELSE -1

\* parseInt of the value of a year or day option
ParseIntOption(text) ==
    CASE text = "2026" -> 2026
      [] text = "2025" -> 2025
      [] text = "3" -> 3
      [] text = "28" -> 28
      [] text = "31" -> 31

\* getStartOfWeek(d): the Sunday of the week of d at 00:00:00.000
getStartOfWeek(d) == setHours(setDate(d, getDate(d) - getDay(d)), MsMidnight)

\* The end of the custom date range without setHours(23, 59, 59, 999).
RangeEndAsPicked(end) == end

\* The end of the custom date range made inclusive by moving the Date to
\* the midnight that follows its day: endDate.setDate(endDate.getDate() + 1)
\* and endDate.setHours(0, 0, 0, 0).
RangeEndNextDay(end) == setHours(setDate(end, getDate(end) + 1), MsMidnight)

\* new Date(endDate.setHours(23, 59, 59, 999))
RangeEnd(end) == setHours(end, MsDayEnd)

\* The Dates held in startDate and endDate once the filter callback of
\* filteredSells has run for n records: with both dates set, each run calls
\* startDate.setHours(0, 0, 0, 0) and endDate.setHours(23, 59, 59, 999) on
\* the Dates themselves, before it tests the record.
RECURSIVE RangeDatesAfter(_, _, _)
RangeDatesAfter(n, start, end) ==
    IF n = 0 \/ start = NullDate \/ end = NullDate
    THEN [start |-> start, end |-> end]
    ELSE LET before == RangeDatesAfter(n - 1, start, end)
         IN [start |-> setHours(before.start, MsMidnight), end |-> RangeEnd(before.end)]

\* The predicate of sells.filter in filteredSells, for one record, given the
\* values of the filters, the Dates of the range as the run for this record
\* finds them, and the current date.
SellMatches(sell, month, year, day, week, start, end, today) ==
    LET soldDate == parseISO(sell.soldAt)
        inRange ==
            IF start # NullDate /\ end # NullDate
            THEN /\ DateLeq(setHours(start, MsMidnight), soldDate)
                 /\ DateLeq(soldDate, RangeEnd(end))
            ELSE TRUE
        inYear ==
            IF year # "All" THEN getFullYear(soldDate) = ParseIntOption(year) ELSE TRUE
        inMonth ==
            IF month # "All" THEN getMonth(soldDate) = IndexOf(MONTHS, month) ELSE TRUE
        onDay ==
            IF day # "All" THEN getDate(soldDate) = ParseIntOption(day) ELSE TRUE
        startOfWeek == getStartOfWeek(today)
        startOfLastWeek == setDate(startOfWeek, getDate(startOfWeek) - 7)
        endOfLastWeek ==
            setHours(setDate(startOfLastWeek, getDate(startOfLastWeek) + 6), MsDayEnd)
        inWeek ==
            IF week = "This Week" THEN DateLeq(startOfWeek, soldDate)
            ELSE IF week = "Last Week"
            THEN DateLeq(startOfLastWeek, soldDate) /\ DateLeq(soldDate, endOfLastWeek)
            ELSE TRUE
    IN inRange /\ inYear /\ inMonth /\ onDay /\ inWeek

\* list.filter(callback): the callback runs for the records in their order,
\* the run for record i on the Dates the runs for the records before it have
\* left behind; the records it accepts are returned in their order.
FilterSells(list, month, year, day, week, start, end, today) ==
    LET Accepts(i) ==
            LET dates == RangeDatesAfter(i - 1, start, end)
            IN SellMatches(list[i], month, year, day, week, dates.start, dates.end, today)
        kept == {i \in 1..Len(list) : Accepts(i)}
        Nth(j) == CHOOSE i \in kept : Cardinality({k \in kept : k < i}) = j - 1
    IN [j \in 1..Cardinality(kept) |-> list[Nth(j)]]

\* The useMemo filteredSells of the dashboard: the value computed by the
\* last render in which one of [sells, filteredMonth, filteredYear,
\* filteredDay, filteredWeek, startDate, endDate] had changed, with the date
\* of that render for today.
filteredSells ==
    FilterSells(sells, filteredMonth, filteredYear, filteredDay, filteredWeek,
                startDate, endDate, dashToday)

isFilterActive ==
    \/ filteredMonth # "All"
    \/ filteredYear # "All"
    \/ filteredDay # "All"
    \/ filteredWeek # "All"
    \/ startDate # NullDate
    \/ endDate # NullDate

\* The useMemo currentViewSells: the filtered records, or by default those
\* of today.  Its dependencies [sells, filteredSells, isFilterActive] change
\* in the renders in which filteredSells is computed again and in no other,
\* so that its today is the date of the same render.
currentViewSells ==
    IF isFilterActive THEN filteredSells
    ELSE SelectSeq(sells, LAMBDA sell :
             LET soldDate == parseISO(sell.soldAt)
             IN /\ getDate(soldDate) = getDate(dashToday)
                /\ getMonth(soldDate) = getMonth(dashToday)
                /\ getFullYear(soldDate) = getFullYear(dashToday))

\* data.reduce((acc, sell) => acc + sell.finalPriceCharged, 0)
RECURSIVE SumFinalPrice(_)
SumFinalPrice(data) ==
    IF data = <<>> THEN 0
    ELSE SumFinalPrice(SubSeq(data, 1, Len(data) - 1)) + data[Len(data)].finalPriceCharged

RECURSIVE SumQuantity(_)
SumQuantity(data) ==
    IF data = <<>> THEN 0
    ELSE SumQuantity(SubSeq(data, 1, Len(data) - 1)) + data[Len(data)].quantity

RECURSIVE SumDiscount(_)
SumDiscount(data) ==
    IF data = <<>> THEN 0
    ELSE SumDiscount(SubSeq(data, 1, Len(data) - 1)) + data[Len(data)].discount

getSellStats(data) ==
    LET cashSales == SelectSeq(data, LAMBDA sell : sell.paymentMethod = "cash")
        onlineSales == SelectSeq(data, LAMBDA sell : sell.paymentMethod = "online")
    IN [totalQuantitySold |-> SumQuantity(data),
        totalMoneyCollected |-> SumFinalPrice(data),
        totalDiscountGiven |-> SumDiscount(data),
        totalCashSales |-> SumFinalPrice(cashSales),
        totalOnlineSales |-> SumFinalPrice(onlineSales),
        cashTransactions |-> Len(cashSales),
        onlineTransactions |-> Len(onlineSales)]

currentViewStats == getSellStats(currentViewSells)

\* monthName.slice(0, 3) of the names of MONTHS
MonthLabels ==
    <<"Jan", "Feb", "Mar", "Apr", "May", "Jun", "Jul", "Aug", "Sep", "Oct", "Nov", "Dec">>

\* monthlyData of chartData with the month compared as a number from 1.
MonthlyDataOneBased(index) ==
    SelectSeq(filteredSells, LAMBDA sell : getMonth(parseISO(sell.soldAt)) = index + 1)

\* filteredSells.filter(sell => new Date(sell.soldAt).getMonth() === index)
MonthlyData(index) ==
    SelectSeq(filteredSells, LAMBDA sell : getMonth(parseISO(sell.soldAt)) = index)

\* The useMemo chartData: one bucket for each name of MONTHS.
chartData ==
    [m \in 1..Len(MONTHS) |->
        LET monthlyData == MonthlyData(m - 1)
        IN [month |-> MonthLabels[m],
            Cash |-> SumFinalPrice(SelectSeq(monthlyData,
                         LAMBDA sell : sell.paymentMethod = "cash")),
            Online |-> SumFinalPrice(SelectSeq(monthlyData,
                         LAMBDA sell : sell.paymentMethod = "online"))]]

\* One step of the reduce in aggregatedProductSales that overwrites the
\* amount of the group instead of adding to it.
AddToReportOverwrites(acc, sell) ==
    IF \E i \in 1..Len(acc) : acc[i].name = sell.name
    THEN [i \in 1..Len(acc) |->
             IF acc[i].name = sell.name
             THEN [name |-> sell.name,
                   totalQuantity |-> acc[i].totalQuantity + sell.quantity,
                   totalAmount |-> sell.finalPriceCharged,
                   totalDiscount |-> acc[i].totalDiscount + sell.discount]
             ELSE acc[i]]
    ELSE Append(acc, [name |-> sell.name, totalQuantity |-> sell.quantity,
                      totalAmount |-> sell.finalPriceCharged,
                      totalDiscount |-> sell.discount])

\* One step of the reduce in aggregatedProductSales: the group of the name
\* of the record is created or added to.  Object.values lists the groups in
\* the order in which their names were first seen.
AddToReport(acc, sell) ==
    IF \E i \in 1..Len(acc) : acc[i].name = sell.name
    THEN [i \in 1..Len(acc) |->
             IF acc[i].name = sell.name
             THEN [name |-> sell.name,
                   totalQuantity |-> acc[i].totalQuantity + sell.quantity,
                   totalAmount |-> acc[i].totalAmount + sell.finalPriceCharged,
                   totalDiscount |-> acc[i].totalDiscount + sell.discount]
             ELSE acc[i]]
    ELSE Append(acc, [name |-> sell.name, totalQuantity |-> sell.quantity,
                      totalAmount |-> sell.finalPriceCharged,
                      totalDiscount |-> sell.discount])

RECURSIVE ProductReport(_)
ProductReport(data) ==
    IF data = <<>> THEN <<>>
    ELSE AddToReport(ProductReport(SubSeq(data, 1, Len(data) - 1)), data[Len(data)])

\* The useMemo aggregatedProductSales.
aggregatedProductSales == ProductReport(filteredSells)

\* The two ReportTable components of the dashboard, each named by its
\* initialSortKey, and the keys of the columns that can be clicked.
ReportTables == {"totalQuantity", "totalAmount"}

SortKeys == {"totalQuantity", "totalAmount", "totalDiscount"}

\* The comparator of sortableItems.sort without the test of the direction.
CompareRowsDescending(a, b, config) ==
    IF a[config.key] < b[config.key] THEN 1
    ELSE IF a[config.key] > b[config.key] THEN -1
    ELSE 0

\* The comparator of sortableItems.sort
CompareRows(a, b, config) ==
    IF a[config.key] < b[config.key]
    THEN (IF config.direction = "ascending" THEN -1 ELSE 1)
    ELSE IF a[config.key] > b[config.key]
    THEN (IF config.direction = "ascending" THEN 1 ELSE -1)
    ELSE 0

\* Array.prototype.sort is stable: a row goes behind the rows that the
\* comparator does not put after it.
InsertRow(sorted, row, config) ==
    LET k == Cardinality({i \in 1..Len(sorted) : CompareRows(sorted[i], row, config) <= 0})
    IN SubSeq(sorted, 1, k) \o <<row>> \o SubSeq(sorted, k + 1, Len(sorted))

RECURSIVE SortRows(_, _)
SortRows(data, config) ==
    IF data = <<>> THEN <<>>
    ELSE InsertRow(SortRows(SubSeq(data, 1, Len(data) - 1), config), data[Len(data)], config)

\* The useMemo sortedData of a ReportTable: a sorted copy [...data] of the
\* rollup it is given.
sortedData(table) == SortRows(aggregatedProductSales, sortConfig[table])

\* requestSort of a ReportTable: a click on the header of a column.
requestSort(table, key) ==
    /\ sortConfig' =
           [sortConfig EXCEPT ![table] =
               [key |-> key,
                direction |->
                    IF /\ sortConfig[table].key = key
                       /\ sortConfig[table].direction = "descending"
                    THEN "ascending"
                    ELSE "descending"]]
    /\ UNCHANGED <<sells, filteredMonth, filteredYear, filteredDay, filteredWeek,
                   startDate, endDate, dashToday>>
    /\ UNCHANGED <<formVars, envVars, clock, salesVars, feedVars>>

\* The filter callback of filteredSells runs startDate.setHours(0, 0, 0, 0)
\* and endDate.setHours(23, 59, 59, 999) on the Dates held in the state, once
\* for each record: the dates a render leaves behind.
RenderedStart(list, start, end) == RangeDatesAfter(Len(list), start, end).start

RenderedEnd(list, start, end) == RangeDatesAfter(Len(list), start, end).end

\* The render that follows a handler of the dashboard: filteredSells and
\* currentViewSells are computed again, reading the current date, if a
\* filter has changed or the handler has put a new array or a new Date (one
\* that differs from the old by identity) into the state, and are the values
\* held by the useMemos otherwise.
DashRender(fresh) ==
    dashToday' =
        IF \/ fresh
           \/ <<filteredMonth', filteredYear', filteredDay', filteredWeek',
                startDate', endDate'>>
                  # <<filteredMonth, filteredYear, filteredDay, filteredWeek,
                       startDate, endDate>>
        THEN clock
        ELSE dashToday

\* The onValue callback of the dashboard.  setSells is given a new array, a
\* changed dependency of filteredSells and currentViewSells.
DashSnapshot(data) ==
    /\ sells' = SellListOf(data)
    /\ dashToday' = clock
    /\ startDate' = RenderedStart(SellListOf(data), startDate, endDate)
    /\ endDate' = RenderedEnd(SellListOf(data), startDate, endDate)
    /\ UNCHANGED <<filteredMonth, filteredYear, filteredDay, filteredWeek, sortConfig>>

\* The node 'sell' changes: the database calls every callback registered
\* on it with the new snapshot.
SellNodeChanges(data) ==
    /\ node' = data
    /\ UNCHANGED <<listeners, mounted>>
    /\ UNCHANGED <<formVars, envVars, clock>>
    /\ IF "sales" \in listeners THEN SalesSnapshot(data) ELSE UNCHANGED salesVars
    /\ IF "dashboard" \in listeners THEN DashSnapshot(data) ELSE UNCHANGED dashVars

\* The sales page unmounts and its subscription effect has no cleanup: the
\* callback stays registered.
SalesUnmountKeepsListener ==
    /\ "sales" \in mounted
    /\ mounted' = mounted \ {"sales"}
    /\ sellList' = <<>>
    /\ filter' = "today"
    /\ selectedDateInput' = <<>>
    /\ selectedMonthInput' = <<>>
    /\ selectedYearInput' = <<>>
    /\ salesToday' = Clocks[1]
    /\ UNCHANGED <<node, listeners, dashVars>>
    /\ UNCHANGED <<formVars, envVars, clock>>

\* The sales page unmounts: the cleanup of its subscription effect runs
\* unsubscribe(), and the state of the component is discarded (each field
\* is left at the value useState gives it, the date of the useMemo at the
\* first of the dates).
SalesUnmount ==
    /\ "sales" \in mounted
    /\ mounted' = mounted \ {"sales"}
    /\ listeners' = listeners \ {"sales"}
    /\ sellList' = <<>>
    /\ filter' = "today"
    /\ selectedDateInput' = <<>>
    /\ selectedMonthInput' = <<>>
    /\ selectedYearInput' = <<>>
    /\ salesToday' = Clocks[1]
    /\ UNCHANGED <<node, dashVars>>
    /\ UNCHANGED <<formVars, envVars, clock>>

\* The dashboard unmounts: the cleanup of its subscription effect runs
\* unsubscribe(), and the state of the component is discarded.
DashUnmount ==
    /\ "dashboard" \in mounted
    /\ mounted' = mounted \ {"dashboard"}
    /\ listeners' = listeners \ {"dashboard"}
    /\ sells' = <<>>
    /\ filteredMonth' = "All"
    /\ filteredYear' = "All"
    /\ filteredDay' = "All"
    /\ filteredWeek' = "All"
    /\ startDate' = NullDate
    /\ endDate' = NullDate
    /\ sortConfig' = [table \in ReportTables |->
                         [key |-> table, direction |-> "descending"]]
    /\ dashToday' = Clocks[1]
    /\ UNCHANGED <<node, salesVars>>
    /\ UNCHANGED <<formVars, envVars, clock>>

\* onChange of the month select without setFilteredDay('All').
MonthChangeKeepsDay(value) ==
    /\ filteredMonth' = value
    /\ filteredWeek' = "All"
    /\ startDate' = NullDate
    /\ endDate' = NullDate
    /\ UNCHANGED <<sells, filteredYear, filteredDay>>
    /\ UNCHANGED <<formVars, envVars, clock, salesVars, feedVars>>
    /\ UNCHANGED sortConfig
    /\ DashRender(FALSE)

\* onChange of the month select
MonthChange(value) ==
    /\ filteredMonth' = value
    /\ filteredDay' = "All"
    /\ filteredWeek' = "All"
    /\ startDate' = NullDate
    /\ endDate' = NullDate
    /\ UNCHANGED <<sells, filteredYear>>
    /\ UNCHANGED <<formVars, envVars, clock, salesVars, feedVars>>
    /\ UNCHANGED sortConfig
    /\ DashRender(FALSE)

\* onChange of the year select
YearChange(value) ==
    /\ filteredYear' = value
    /\ filteredDay' = "All"
    /\ filteredWeek' = "All"
    /\ startDate' = NullDate
    /\ endDate' = NullDate
    /\ UNCHANGED <<sells, filteredMonth>>
    /\ UNCHANGED <<formVars, envVars, clock, salesVars, feedVars>>
    /\ UNCHANGED sortConfig
    /\ DashRender(FALSE)

\* getDayOptions: the days of the selected month of the selected year
getDayOptions ==
    IF filteredMonth = "All" \/ filteredYear = "All" THEN {}
    ELSE 1..getDate(NewDate(ParseIntOption(filteredYear),
                            IndexOf(MONTHS, filteredMonth) + 1, 0))

\* onChange of the day select, which is disabled unless a month and a year
\* are selected
DayChange(value) ==
    /\ filteredMonth # "All"
    /\ filteredYear # "All"
    /\ IF value = "All" THEN TRUE ELSE ParseIntOption(value) \in getDayOptions
    /\ filteredDay' = value
    /\ filteredWeek' = "All"
    /\ startDate' = NullDate
    /\ endDate' = NullDate
    /\ UNCHANGED <<sells, filteredMonth, filteredYear>>
    /\ UNCHANGED <<formVars, envVars, clock, salesVars, feedVars>>
    /\ UNCHANGED sortConfig
    /\ DashRender(FALSE)

\* onChange of the week select without setFilteredMonth('All').
WeekChangeKeepsMonth(value) ==
    /\ filteredWeek' = value
    /\ filteredYear' = "All"
    /\ filteredDay' = "All"
    /\ startDate' = NullDate
    /\ endDate' = NullDate
    /\ UNCHANGED <<sells, filteredMonth>>
    /\ UNCHANGED <<formVars, envVars, clock, salesVars, feedVars>>
    /\ UNCHANGED sortConfig
    /\ DashRender(FALSE)

\* onChange of the week select
WeekChange(value) ==
    /\ filteredWeek' = value
    /\ filteredMonth' = "All"
    /\ filteredYear' = "All"
    /\ filteredDay' = "All"
    /\ startDate' = NullDate
    /\ endDate' = NullDate
    /\ UNCHANGED sells
    /\ UNCHANGED <<formVars, envVars, clock, salesVars, feedVars>>
    /\ UNCHANGED sortConfig
    /\ DashRender(FALSE)

\* The Dates a picker can hand over: null, or a day it offers (none after
\* maxDate, none before minDate) at some time of that day.
PickerDates(minDay, maxDay) ==
    {NullDate} \cup
    {d \in {parseISO(text \o <<ms>>) : text \in PickerDays, ms \in PickerTimes} :
        minDay <= d.day /\ d.day <= maxDay}

\* onChange of the start date picker (maxDate: endDate || new Date())
StartDateChange(date) ==
    /\ date \in PickerDates(0, IF endDate # NullDate THEN endDate.day ELSE clock.day)
    /\ LET end == IF endDate # NullDate /\ date # NullDate /\ DateLess(endDate, date)
                   THEN NullDate
                   ELSE endDate
       IN /\ startDate' = RenderedStart(sells, date, end)
          /\ endDate' = RenderedEnd(sells, date, end)
    /\ filteredMonth' = "All"
    /\ filteredYear' = "All"
    /\ filteredDay' = "All"
    /\ filteredWeek' = "All"
    /\ UNCHANGED sells
    /\ UNCHANGED <<formVars, envVars, clock, salesVars, feedVars>>
    /\ UNCHANGED sortConfig
    /\ DashRender(date # NullDate)

\* onChange of the end date picker (minDate: startDate, maxDate: new Date())
EndDateChange(date) ==
    /\ date \in PickerDates(IF startDate # NullDate THEN startDate.day ELSE 0, clock.day)
    /\ startDate' = RenderedStart(sells, startDate, date)
    /\ endDate' = RenderedEnd(sells, startDate, date)
    /\ filteredMonth' = "All"
    /\ filteredYear' = "All"
    /\ filteredDay' = "All"
    /\ filteredWeek' = "All"
    /\ UNCHANGED sells
    /\ UNCHANGED <<formVars, envVars, clock, salesVars, feedVars>>
    /\ UNCHANGED sortConfig
    /\ DashRender(date # NullDate)

handleFilterReset ==
    /\ filteredMonth' = "All"
    /\ filteredYear' = "All"
    /\ filteredDay' = "All"
    /\ filteredWeek' = "All"
    /\ startDate' = NullDate
    /\ endDate' = NullDate
    /\ UNCHANGED sells
    /\ UNCHANGED <<formVars, envVars, clock, salesVars, feedVars>>
    /\ UNCHANGED sortConfig
    /\ DashRender(FALSE)

\* Time passes.  No state of a page changes, so that no page is rendered
\* and every useMemo keeps the value it holds.
ClockAdvances ==
    /\ \E i \in 1..(Len(Clocks) - 1) : clock = Clocks[i] /\ clock' = Clocks[i + 1]
    /\ UNCHANGED <<formVars, envVars, salesVars, dashVars, feedVars>>

\* The events of the sales page: its controls are there while it is mounted.
SalesNext ==
    \/ ClockAdvances
    \/ \E data \in NextSnapshots(node) : SellNodeChanges(data)
    \/ SalesUnmount
    \/ "sales" \in mounted /\ \E newFilter \in {"today", "all"} : handleFilterChange(newFilter)
    \/ "sales" \in mounted /\ \E value \in DateInputTexts : DayInputChange(value)
    \/ "sales" \in mounted /\ \E value \in MonthInputTexts : MonthInputChange(value)
    \/ "sales" \in mounted /\ \E value \in YearInputTexts : YearInputChange(value)
    \/ "sales" \in mounted /\ \E mode \in {"day", "month", "year"} : FilterModeClick(mode)

SalesSpec == Init /\ [][SalesNext]_vars

\* The events of the dashboard: its controls are there while it is mounted.
DashNext ==
    \/ ClockAdvances
    \/ \E data \in NextSnapshots(node) : SellNodeChanges(data)
    \/ DashUnmount
    \/ "dashboard" \in mounted /\ \E value \in MonthChoices : MonthChange(value)
    \/ "dashboard" \in mounted /\ \E value \in YearChoices : YearChange(value)
    \/ "dashboard" \in mounted /\ \E value \in DayChoices : DayChange(value)
    \/ "dashboard" \in mounted /\ \E value \in WeekChoices : WeekChange(value)
    \/ "dashboard" \in mounted /\ \E date \in PickerDates(0, clock.day) : StartDateChange(date)
    \/ "dashboard" \in mounted /\ \E date \in PickerDates(0, clock.day) : EndDateChange(date)
    \/ "dashboard" \in mounted /\ handleFilterReset

DashSpec == Init /\ [][DashNext]_vars

\* The events of the report tables: the header of a column is there to be
\* clicked once the table has rows.
ReportNext ==
    \/ \E data \in NextSnapshots(node) : SellNodeChanges(data)
    \/ /\ "dashboard" \in mounted
       /\ aggregatedProductSales # <<>>
       /\ \E table \in ReportTables, key \in SortKeys : requestSort(table, key)

ReportSpec == Init /\ [][ReportNext]_vars

\* ---------------------------------------------------------------- spec

Next ==
    \/ \E outcome \in {"exists", "empty", "error"} : FetchProducts(outcome)
    \/ RecomputeEffect
    \/ \E value \in SearchTerms : handleSearchChange(value)
    \/ SearchFocus
    \/ SelectSuggestion
    \/ QuantityInput
    \/ DiscountInput
    \/ PhoneInput
    \/ PaymentInput
    \/ SellClick
    \/ SellCall
    \/ WriteResolves
    \/ WriteRejects
    \/ \E answer \in NotifierOutcomes : NotifierAnswers(answer)
    \/ SellResumes

Spec == Init /\ [][Next]_vars

\* The scheduling of the browser: an effect of a committed render is run; a
\* store write and an invoice post that resolve or reject are delivered,
\* however the user keeps typing; an awaiting handler is resumed.
FairSpec ==
    /\ Spec
    /\ WF_vars(RecomputeEffect)
    /\ SF_vars(WriteResolves \/ WriteRejects)
    /\ SF_vars(\E answer \in NotifierOutcomes : NotifierAnswers(answer))
    /\ WF_vars(SellResumes)

TypeOK ==
    /\ quantity \in 1..MaxQuantity
    /\ pc \in {"idle", "writing", "sending", "answered"}
    /\ isLoading = (pc # "idle")
    /\ Len(store) <= MaxSales

\* ------------------------------------------------------------- claims

\* The product of the draft is selected and its prices are recomputed.
DraftSettled == Settled /\ selectedProduct # NoProduct

\* Every field of the form as handleSell's reset leaves it.
FormIsReset ==
    /\ selectedProduct = NoProduct
    /\ unitPrice = EmptyText
    /\ quantity = 1
    /\ totalPriceCalculated = 0
    /\ discountInput = EmptyText
    /\ finalPriceCharged = EmptyText
    /\ searchTerm = <<>>
    /\ phoneNumber = <<>>
    /\ paymentMethod = "cash"

\* A step that ends a submission whose store write succeeded.
SaleCompletes ==
    /\ pc # "idle"
    /\ pc' = "idle"
    /\ ~(pc = "writing" /\ store' = store)

\* A step that ends a submission whose store write failed.
WriteFails == pc = "writing" /\ pc' = "idle" /\ store' = store

\* C1: every SellRecord in the store satisfies
\* finalPriceCharged = max(0, totalPriceCalculated - discount).
\* Violated: a negative discount typed into the field raises the final price
\* above the total, and the record keeps discount 0.
C1_FinalIsTotalMinusDiscount ==
    \A i \in 1..Len(store) :
        store[i].finalPriceCharged =
            Max(store[i].totalPriceCalculated - store[i].discount, 0)

\* C2: every SellRecord in the store has 0 <= discount <= totalPriceCalculated
\* and finalPriceCharged >= 0.
C2_DiscountWithinTotal ==
    \A i \in 1..Len(store) :
        /\ store[i].discount >= 0
        /\ store[i].discount <= store[i].totalPriceCalculated
        /\ store[i].finalPriceCharged >= 0

\* A record whose recomputed discount was negative and was floored at 0.
C2_Witness ==
    \E i \in 1..Len(store) :
        /\ store[i].finalPriceCharged > store[i].totalPriceCalculated
        /\ store[i].discount = 0

\* C3 as stated: once the effect has settled, a discount d with
\* 0 <= d <= total gives final = total - d exactly.
\* Violated by a discount that is not a whole number of cents.
C3_ExactFinal ==
    (DraftSettled /\ ~IsNaNText(discountInput)) =>
        LET d == parseFloat(discountInput)
        IN (d >= 0 /\ d <= totalPriceCalculated) =>
               finalPriceCharged = Num(totalPriceCalculated - d)

\* The settled draft with a displayed discount d >= 0.
SettledDiscount ==
    (DraftSettled /\ ~IsNaNText(discountInput) /\ ParseFloatOr0(discountInput) >= 0) =>
        LET d == parseFloat(discountInput)
            total == parseFloat(unitPrice) * quantity
        IN /\ totalPriceCalculated = total
           /\ d <= total
           /\ finalPriceCharged = formatCurrency(total - d)
           /\ (d % 10 = 0 => finalPriceCharged = Num(total - d))
           /\ (d = total => /\ finalPriceCharged = Num(0)
                            /\ BuildSellData.discount = total)

\* The effect run that finds a discount above the total.
ClampStep ==
    (/\ EffectPending
     /\ selectedProduct # NoProduct
     /\ ParseFloatOr0(discountInput) > parseFloat(unitPrice) * quantity) =>
        /\ finalPriceCharged' = Num(0)
        /\ discountInput' = Num(parseFloat(unitPrice) * quantity)
        /\ totalPriceCalculated' = parseFloat(unitPrice) * quantity

\* C3 amended: once the effect has settled, a displayed discount d >= 0 never
\* exceeds the total, the final price is total - d rounded to two decimals
\* (total - d itself when d is a whole number of cents), and a sell from a
\* draft whose discount equals the total stores that discount with final 0;
\* the effect run that finds a discount above the total sets the final price
\* to 0 and the displayed discount to the total.
C3_DiscountClamped == []SettledDiscount /\ [][ClampStep]_vars

\* Price 5.00, quantity 1, an entered discount of 6.00: settled with the
\* discount showing 5.00 and the final price 0.
C3_Witness ==
    /\ DraftSettled
    /\ quantity = 1
    /\ totalPriceCalculated = 5000
    /\ discountInput = Num(5000)
    /\ finalPriceCharged = Num(0)

\* One step of the form, as the discount field sees it.
QuantityStep ==
    /\ (quantity' # quantity => discountInput' = EmptyText)
    /\ (totalPriceCalculated' # totalPriceCalculated => discountInput' = EmptyText)
    /\ ((discountInput = EmptyText /\ discountInput' # EmptyText) =>
            \E value \in DiscountTexts : handleDiscountChange(value))

\* C4: a change of the quantity empties the discount in the same render; a
\* render that shows a new total shows an empty discount; and the discount
\* leaves the empty state only through handleDiscountChange.
C4_QuantityResetsDiscount == [][QuantityStep]_vars

\* The render right after a quantity change that followed a discount entry:
\* the discount is empty while the total and the final price still show the
\* old quantity's values.
C4_Witness ==
    /\ EffectPending
    /\ selectedProduct # NoProduct
    /\ quantity = 2
    /\ discountInput = EmptyText
    /\ totalPriceCalculated = 5000
    /\ finalPriceCharged = Num(3770)

\* A call of handleSell that its validation rejects.
RejectedSellStep ==
    (handleSell /\ (selectedProduct = NoProduct \/ FinalPriceInvalid)) =>
        /\ message' = (IF selectedProduct = NoProduct THEN MsgNoProduct ELSE MsgPriceError)
        /\ ~isLoading'
        /\ isLoading' = isLoading
        /\ UNCHANGED <<store, posts, pc, sellData>>
        /\ UNCHANGED <<searchTerm, products, filteredProducts, showSuggestions>>
        /\ UNCHANGED draftVars
        /\ UNCHANGED <<effectDeps, fetchState, now, notifierAnswer>>

\* C5: sell invoked with no product selected, or with a final price that is
\* not a valid non-negative number, changes nothing but the message, which
\* becomes the validation error: no store write, no notifier call, the
\* loading flag untouched.
C5_ValidationFailsFast == [][RejectedSellStep]_vars

\* A product is selected and sell was rejected for its final price.
C5_Witness ==
    /\ selectedProduct # NoProduct
    /\ message = MsgPriceError
    /\ ~isLoading
    /\ store = <<>>

\* One step of a submission, as the store and the form see it.
SubmissionStep ==
    /\ (pc = "idle" /\ pc' = "writing") =>
           LET total == parseFloat(unitPrice) * quantity
               final == parseFloat(finalPriceCharged)
           IN /\ sellData'.totalPriceCalculated = total
              /\ sellData'.finalPriceCharged = final
              /\ sellData'.discount = Max(total - final, 0)
    /\ store' # store =>
           /\ pc = "writing"
           /\ pc' # "writing"
           /\ store' = Append(store, sellData)
    /\ pc = "writing" => pc' \in {"writing", "idle", "sending"}
    /\ SaleCompletes => (FormIsReset' /\ message' = MsgSold /\ ~isLoading')

\* C6: a submission takes its record from the draft with the discount
\* recomputed as max(0, total - final); the store only changes when the write
\* of the submission in flight resolves, by exactly that one record; and the
\* step that completes the sale leaves every form field reset.
C6_SuccessWritesOneAndResets == [][SubmissionStep]_vars

\* A sale completed and the form reset; the record's discount is 1.23 where
\* the discount field held 1.234.
C6_Witness ==
    /\ pc = "idle"
    /\ message = MsgSold
    /\ FormIsReset
    /\ Len(store) = 1
    /\ store[1].discount = 1230
    /\ store[1].finalPriceCharged = 3770

\* The step that ends a submission whose write failed.
FailedWriteStep ==
    WriteFails =>
        /\ message' = MsgSellFailed
        /\ ~isLoading'
        /\ UNCHANGED draftVars
        /\ UNCHANGED <<searchTerm, posts>>

\* C7: the step that ends a submission whose write failed shows the failure
\* message, clears the loading flag and leaves the draft as it was.
C7_FailedWriteRetainsForm == [][FailedWriteStep]_vars

\* After a failed write: the message, and a draft still filled in.
C7_Witness ==
    /\ pc = "idle"
    /\ message = MsgSellFailed
    /\ ~isLoading
    /\ store = <<>>
    /\ selectedProduct = Visa
    /\ quantity = 2
    /\ discountInput = Num(6000)
    /\ phoneNumber = <<"9", "1">>
    /\ paymentMethod = "online"

\* The record of the sale whose invoice is being sent is in the store.
RecordKept ==
    pc \in {"sending", "answered"} => (store # <<>> /\ Last(store) = sellData)

\* The step handleSell takes after a failure answer of the notifier.
NotifierFailureStep ==
    (pc = "answered" /\ notifierAnswer \in NotifierFailures) =>
        /\ store' = store
        /\ message' # MsgSellFailed
        /\ message' = MsgSold
        /\ FormIsReset'
        /\ ~isLoading'
        /\ pc' = "idle"

\* C8: while the notifier is awaited and after it has answered, the record of
\* the sale is the last one in the store; after a failure answer of any shape
\* handleSell resumes without touching the store, never shows the store
\* failure message, and resets the form and shows the success message as
\* after a sale without a phone number.
C8_NotifierFailureIsolated == []RecordKept /\ [][NotifierFailureStep]_vars

\* The notifier has failed with a transport error; the record is stored.
C8_Witness ==
    /\ pc = "answered"
    /\ notifierAnswer = "transport"
    /\ message = MsgInvoiceFailed
    /\ Len(store) = 1
    /\ store[1].phoneNumber = <<"9", "1">>

\* The step that completes a submission whose notifier failed.
WarningStep ==
    (pc = "answered" /\ notifierAnswer \in NotifierFailures /\ pc' = "idle") =>
        message' = MsgInvoiceFailed

\* C9: when the notifier has failed, the message shown once the submission
\* has completed is the notifier-failure warning.
\* Violated: handleSell resumes and replaces it by the success message.
C9_WarningShown == [][WarningStep]_vars

\* C10 as stated: once the store write of a submission with a phone number
\* has resolved, the submission is complete: loading flag cleared, form
\* reset, success message shown.
\* Violated: handleSell awaits the notifier.
C10_FireAndForget ==
    pc = "sending" => (~isLoading /\ FormIsReset /\ message = MsgSold)

\* The form while the notifier is awaited.
Awaiting ==
    pc \in {"sending", "answered"} =>
        /\ isLoading
        /\ SellButtonDisabled
        /\ ~ENABLED SellClick
        /\ sellData.phoneNumber # NullPhone

\* The steps into and out of the wait for the notifier.
AwaitStep ==
    /\ (pc = "writing" /\ store' # store /\ sellData.phoneNumber # NullPhone) =>
           /\ pc' = "sending"
           /\ isLoading'
           /\ UNCHANGED formVars
           /\ posts' = Append(posts, Payload(sellData, sellData.phoneNumber))
    /\ pc = "sending" => pc' \in {"sending", "answered"}
    /\ (pc = "sending" /\ pc' = "answered") => notifierAnswer' \in NotifierOutcomes
    /\ (isLoading /\ ~isLoading' /\ pc # "writing") => pc = "answered"

\* C10 amended: the invoice-send call is awaited.  When the store write of a
\* submission with a phone number resolves, the invoice is posted and the
\* form is left as it is; until the notifier has answered the loading flag
\* stays set and the Sell button disabled; the submission completes only once
\* the notifier has answered.
C10_NotifierAwaited == []Awaiting /\ [][AwaitStep]_vars

\* The record is stored and the invoice posted, and the form still waits.
C10_Witness ==
    /\ pc = "sending"
    /\ isLoading
    /\ Len(store) = 1
    /\ Len(posts) = 1
    /\ selectedProduct # NoProduct

\* Every invoice posted belongs to a record of the store.
PostsFollowStore ==
    /\ Len(posts) <= Len(store)
    /\ \A i \in 1..Len(posts) :
           /\ posts[i].number # NullPhone
           /\ posts[i].number # <<>>
           /\ Trim(posts[i].number) = posts[i].number
           /\ \E j \in 1..Len(store) :
                  posts[i] = Payload(store[j], store[j].phoneNumber)

\* One step, as the invoice endpoint sees it.
NotifierCallStep ==
    /\ posts' # posts =>
           /\ pc = "writing"
           /\ pc' = "sending"
           /\ store' = Append(store, sellData)
           /\ sellData.phoneNumber # NullPhone
           /\ posts' = Append(posts, Payload(sellData, sellData.phoneNumber))
    /\ (pc = "idle" /\ pc' = "writing") =>
           ((sellData'.phoneNumber = NullPhone) <=> (Trim(phoneNumber) = <<>>))
    /\ (pc = "writing" /\ store' # store /\ sellData.phoneNumber # NullPhone) =>
           posts' # posts

\* C11: the invoice endpoint is posted to only in the step in which the
\* store write of the submission in flight resolves, only when the phone
\* number of the draft was non-empty after trimming, and once; no other step
\* posts to it: none of a rejected validation, of a failed write, or of the
\* wait for the answer.
C11_NotifierCalledOnce == []PostsFollowStore /\ [][NotifierCallStep]_vars

\* A completed sale with a phone number: one record, one invoice posted.
C11_Witness ==
    /\ pc = "idle"
    /\ message = MsgSold
    /\ Len(store) = 1
    /\ Len(posts) = 1
    /\ posts[1].number = <<"9", "1">>
    /\ store[1].phoneNumber = <<"9", "1">>

\* C13: whenever the search term is empty the suggestion panel is hidden.
\* Violated: the form reset after a sale empties the search term and keeps
\* the filtered list, and a focus on the search box shows the list again.
C13_EmptyTermHidesPanel == searchTerm = <<>> => ~SuggestionsShown

\* C14 as stated: the unit price of the draft is the catalog price of the
\* selected product.
\* Violated by a catalog price that is not a whole number of cents.
C14_UnitPriceIsCatalogPrice ==
    selectedProduct # NoProduct => unitPrice = Num(selectedProduct.price)

\* The draft as the recompute leaves it after a selection.
SelectedDraft ==
    /\ selectedProduct # NoProduct => unitPrice = formatCurrency(selectedProduct.price)
    /\ (DraftSettled /\ quantity = 1 /\ discountInput = EmptyText) =>
           /\ totalPriceCalculated = parseFloat(unitPrice)
           /\ finalPriceCharged = unitPrice

\* The click on a suggestion, and the effect run that follows it.
SelectStep ==
    /\ selectedProduct' # selectedProduct /\ selectedProduct' # NoProduct =>
           /\ SuggestionsShown
           /\ \E i \in 1..Len(filteredProducts) : selectedProduct' = filteredProducts[i]
           /\ unitPrice' = formatCurrency(selectedProduct'.price)
           /\ quantity' = 1
           /\ discountInput' = EmptyText
           /\ EffectPending'
    /\ (EffectPending /\ ~EffectPending' /\ selectedProduct # NoProduct
            /\ quantity = 1 /\ discountInput = EmptyText) =>
           /\ totalPriceCalculated' = parseFloat(unitPrice)
           /\ finalPriceCharged' = unitPrice
           /\ UNCHANGED <<selectedProduct, unitPrice, quantity, discountInput>>

\* C14 amended: selecting a suggestion, from any form state, sets the unit
\* price of the draft to the catalog price of the selected product rounded to
\* two decimals, the quantity to 1 and the discount to empty; the recompute
\* that follows sets the total and the final price to that unit price.
C14_SelectResetsDraft == []SelectedDraft /\ [][SelectStep]_vars

\* The render right after the product priced 0.004 was selected over a draft
\* of the other product with quantity 2 and a discount: unit price 0.00,
\* quantity 1, no discount, the total and the final price still the old ones.
C14_Witness ==
    /\ EffectPending
    /\ selectedProduct = Gift
    /\ unitPrice = Num(0)
    /\ quantity = 1
    /\ discountInput = EmptyText
    /\ totalPriceCalculated = 10000
    /\ finalPriceCharged = Num(4000)

\* C12: provided the store write and the invoice post each resolve or
\* reject, a loading flag that is set is cleared again, whatever the outcome
\* of the submission; a submission that validation rejects never sets it.
C12_LoadingEnds == isLoading ~> (~isLoading /\ pc = "idle")

\* The invoice post has thrown while the form is loading.
C12_Witness ==
    /\ isLoading
    /\ pc = "answered"
    /\ notifierAnswer = "exception"

\* C15: on the sales page, a filter mode of day, month or year with its
\* input empty shows no records.
\* Violated: the page shows the sales of today.
C15_EmptyInputEmptySet ==
    (\/ filter = "day" /\ selectedDateInput = <<>>
     \/ filter = "month" /\ selectedMonthInput = <<>>
     \/ filter = "year" /\ selectedYearInput = <<>>) =>
        filteredSales = <<>>

\* C16: on the sales page at most one of the day, month and year inputs is
\* non-empty, and the filter mode is the mode of the input that is non-empty.
C16_FiltersMutuallyReset ==
    /\ selectedDateInput # <<>> =>
           (filter = "day" /\ selectedMonthInput = <<>> /\ selectedYearInput = <<>>)
    /\ selectedMonthInput # <<>> =>
           (filter = "month" /\ selectedDateInput = <<>> /\ selectedYearInput = <<>>)
    /\ selectedYearInput # <<>> =>
           (filter = "year" /\ selectedDateInput = <<>> /\ selectedMonthInput = <<>>)

\* A year is entered, with records delivered: the page is in year mode and
\* shows the one record of that year.
C16_Witness ==
    /\ filter = "year"
    /\ selectedYearInput = <<2025>>
    /\ Len(sellList) = 2
    /\ Len(filteredSales) = 1

\* The groups of filters of the dashboard that hold a non-default value.
DateGroupSet == filteredMonth # "All" \/ filteredYear # "All" \/ filteredDay # "All"

WeekGroupSet == filteredWeek # "All"

RangeGroupSet == startDate # NullDate \/ endDate # NullDate

\* C17 as stated: no two of the month, year, day, week and date range
\* filters of the dashboard hold a non-default value at the same time.
\* Violated: selecting a year leaves the month selected, and a day can only
\* be selected while a month and a year are.
C17_OneFilterAtATime ==
    Cardinality({i \in 1..5 :
        <<filteredMonth # "All", filteredYear # "All", filteredDay # "All",
          WeekGroupSet, RangeGroupSet>>[i]}) <= 1

\* C17 amended: the month, year and day filters may hold values together;
\* apart from that no two of the filters are set at the same time: not the
\* week filter with a month, year or day, not the date range with any of
\* them, and not the week filter with the date range.
C17_FilterGroupsExclusive ==
    /\ ~(DateGroupSet /\ WeekGroupSet)
    /\ ~(DateGroupSet /\ RangeGroupSet)
    /\ ~(WeekGroupSet /\ RangeGroupSet)

\* A month, a year and a day are selected together, with records delivered.
C17_Witness ==
    /\ filteredMonth = "March"
    /\ filteredYear = "2026"
    /\ filteredDay = "3"
    /\ sells # <<>>
    /\ ~WeekGroupSet
    /\ ~RangeGroupSet

\* C18: with a start date and an end date chosen, the filtered set, which
\* is the set in view, is exactly the records sold from 00:00:00.000 of the
\* start day to 23:59:59.999 of the end day.
C18_RangeInclusive ==
    (startDate # NullDate /\ endDate # NullDate) =>
        /\ filteredSells =
               SelectSeq(sells, LAMBDA sell :
                   LET t == parseISO(sell.soldAt)
                   IN /\ DateLeq([day |-> startDate.day, ms |-> 0], t)
                      /\ DateLeq(t, [day |-> endDate.day, ms |-> 86399999]))
        /\ currentViewSells = filteredSells

\* The range 2026-02-22 to 2026-02-28: of
\* the records sold on 02-28 at 23:59:59.999 and on 02-21 at 23:59:59.999,
\* the first is in view and the second is not.
C18_Witness ==
    /\ startDate.day = DaysFromCivil(2026, 2, 22)
    /\ endDate.day = DaysFromCivil(2026, 2, 28)
    /\ Len(sells) = 2
    /\ sells[1].soldAt = <<2026, 2, 28, 86399999>>
    /\ sells[2].soldAt = <<2026, 2, 21, 86399999>>
    /\ filteredSells = <<sells[1]>>

\* The records of a list sold in the seven days that start on a Sunday.
SoldInWeek(list, sunday) ==
    SelectSeq(list, LAMBDA sell :
        LET t == parseISO(sell.soldAt)
        IN sunday <= t.day /\ t.day <= sunday + 6)

\* C19: 'This Week' selects exactly the records sold in the current week,
\* Sunday to Saturday, 'Last Week' exactly those of the week before, and no
\* record is selected by both.
\* Violated: 'This Week' also selects a record dated after the current week.
C19_WeekFilters ==
    LET sunday == clock.day - getDay(clock)
        thisWeek == FilterSells(sells, "All", "All", "All", "This Week",
                                NullDate, NullDate, clock)
        lastWeek == FilterSells(sells, "All", "All", "All", "Last Week",
                                NullDate, NullDate, clock)
    IN /\ thisWeek = SoldInWeek(sells, sunday)
       /\ lastWeek = SoldInWeek(sells, sunday - 7)
       /\ \A i \in 1..Len(thisWeek) : \A j \in 1..Len(lastWeek) : thisWeek[i] # lastWeek[j]
       /\ filteredWeek = "This Week" => filteredSells = thisWeek
       /\ filteredWeek = "Last Week" => filteredSells = lastWeek

RECURSIVE SumTotalAmount(_)
SumTotalAmount(report) ==
    IF report = <<>> THEN 0
    ELSE SumTotalAmount(SubSeq(report, 1, Len(report) - 1)) + report[Len(report)].totalAmount

\* C20 as stated: in every state of the dashboard the revenues of the groups
\* of the per-product rollup add up to the revenue reported for the records
\* in view.
\* Violated with no filter chosen: the rollup covers every record, the
\* statistics those of today.
C20_RollupMatchesView ==
    SumTotalAmount(aggregatedProductSales) = currentViewStats.totalMoneyCollected

\* C20 amended: the rollup has one group for each product name of the
\* filtered set, holding the revenue of the records of that name, and the
\* revenues of the groups add up to the revenue of the filtered set; that is
\* the revenue reported for the records in view whenever a filter is
\* active, and the revenue of the whole record list when none is.
C20_RollupMatchesFiltered ==
    LET report == aggregatedProductSales
    IN /\ SumTotalAmount(report) = SumFinalPrice(filteredSells)
       /\ \A i, j \in 1..Len(report) : report[i].name = report[j].name => i = j
       /\ \A i \in 1..Len(report) :
              report[i].totalAmount =
                  SumFinalPrice(SelectSeq(filteredSells,
                                          LAMBDA sell : sell.name = report[i].name))
       /\ \A k \in 1..Len(filteredSells) :
              \E i \in 1..Len(report) : report[i].name = filteredSells[k].name
       /\ isFilterActive =>
              SumTotalAmount(report) = currentViewStats.totalMoneyCollected
       /\ ~isFilterActive => SumTotalAmount(report) = SumFinalPrice(sells)

\* 'Last Week' is selected and two sales of the same product of that week
\* are in view: one group, holding the revenue of both.
C20_Witness ==
    /\ filteredWeek = "Last Week"
    /\ Len(filteredSells) = 2
    /\ Len(aggregatedProductSales) = 1
    /\ aggregatedProductSales[1].totalAmount = 7540

\* The sum of finalPriceCharged over the records of a list at the positions
\* of a set.
RECURSIVE CollectedAt(_, _)
CollectedAt(list, positions) ==
    IF positions = {} THEN 0
    ELSE LET i == CHOOSE j \in positions : TRUE
         IN list[i].finalPriceCharged + CollectedAt(list, positions \ {i})

PositionsPaid(list, method) == {i \in 1..Len(list) : list[i].paymentMethod = method}

\* C21: with no filter chosen the dashboard statistics are computed over
\* exactly the records sold today, in the order of the list; and over any
\* view the money collected is the sum of the final prices, the cash and
\* the online sums add up to it, the cash transactions are the cash records
\* and the two transaction counts add up to the records in view.
\* Violated: once the date has changed with no new snapshot and no change
\* of a filter, the statistics are still those of the records of the day on
\* which currentViewSells was last computed.
C21_DefaultStatsOverToday ==
    \A view \in {currentViewSells}, stats \in {currentViewStats} :
        /\ ~isFilterActive =>
               view = SelectSeq(sells, LAMBDA sell : parseISO(sell.soldAt).day = clock.day)
        /\ stats.totalMoneyCollected = CollectedAt(view, 1..Len(view))
        /\ stats.totalCashSales = CollectedAt(view, PositionsPaid(view, "cash"))
        /\ stats.totalOnlineSales = CollectedAt(view, PositionsPaid(view, "online"))
        /\ stats.totalCashSales + stats.totalOnlineSales = stats.totalMoneyCollected
        /\ stats.cashTransactions = Cardinality(PositionsPaid(view, "cash"))
        /\ stats.cashTransactions + stats.onlineTransactions = Len(view)

\* The positions of the records of a list sold in the calendar month m
\* (1 to 12) of any year and paid by a method.
PositionsInMonth(list, m, method) ==
    {i \in 1..Len(list) :
        /\ list[i].soldAt[2] = m
        /\ list[i].paymentMethod = method}

\* C22 as stated: for every filter selection, bucket m of the twelve
\* buckets of the monthly series holds the cash sum and the online sum of
\* finalPriceCharged over all records of the full record list sold in
\* calendar month m.
C22_SeriesOverFullList ==
    \A series \in {chartData} :
        /\ Len(series) = 12
        /\ \A m \in 1..12 :
               /\ series[m].Cash = CollectedAt(sells, PositionsInMonth(sells, m, "cash"))
               /\ series[m].Online = CollectedAt(sells, PositionsInMonth(sells, m, "online"))

\* C22 amended: the monthly series has twelve buckets, and bucket m holds
\* the cash sum and the online sum of finalPriceCharged over the records of
\* the filtered set sold in calendar month m, across all years present in it.
C22_SeriesOverFiltered ==
    \A series \in {chartData}, filtered \in {filteredSells} :
        /\ Len(series) = 12
        /\ \A m \in 1..12 :
               /\ series[m].month = MonthLabels[m]
               /\ series[m].Cash =
                      CollectedAt(filtered, PositionsInMonth(filtered, m, "cash"))
               /\ series[m].Online =
                      CollectedAt(filtered, PositionsInMonth(filtered, m, "online"))

\* The year 2025 is selected and the list holds a cash sale of March 2025
\* and a cash sale of March 2026: the bucket of March holds the first alone.
C22_Witness ==
    /\ filteredYear = "2025"
    /\ filteredMonth = "All"
    /\ Len(sells) = 2
    /\ \A i \in 1..2 : sells[i].soldAt[2] = 3 /\ sells[i].paymentMethod = "cash"
    /\ \E i \in 1..2 : sells[i].soldAt[1] = 2026
    /\ chartData[3].Cash = 3770
    /\ chartData[3].Online = 0

\* The position of a row in a list of rows.
RowPosition(rows, row) == CHOOSE i \in 1..Len(rows) : rows[i] = row

\* out holds the rows of rollup, each once, in the order of config, and rows
\* with equal values of the key keep the order they have in rollup.
StablySorted(out, rollup, config) ==
    /\ Len(out) = Len(rollup)
    /\ \A i \in 1..Len(rollup) : \E j \in 1..Len(out) : out[j] = rollup[i]
    /\ \A i, j \in 1..Len(out) :
           i < j =>
               /\ out[i] # out[j]
               /\ IF config.direction = "descending"
                  THEN out[i][config.key] >= out[j][config.key]
                  ELSE out[i][config.key] <= out[j][config.key]
               /\ out[i][config.key] = out[j][config.key] =>
                      RowPosition(rollup, out[i]) < RowPosition(rollup, out[j])

\* A click on a header of a report table: its sortConfig changes.
SortStep(table) == sortConfig'[table] # sortConfig[table]

\* C23: each report table starts sorted descending by its initial key; its
\* rows are always a permutation of the rollup, sorted by the active key in
\* the active direction, with rows of equal key values in their input order;
\* a sort requested on the active key toggles the direction, a sort requested
\* on another key sorts descending by that key, and a request changes neither
\* the records and filters the rollup is computed from nor the other table.
C23_ReportTableSorted ==
    /\ \A table \in ReportTables :
           sortConfig[table] = [key |-> table, direction |-> "descending"]
    /\ [](\A table \in ReportTables :
             StablySorted(sortedData(table), aggregatedProductSales, sortConfig[table]))
    /\ [][\A table \in ReportTables :
             SortStep(table) =>
                 /\ IF sortConfig'[table].key = sortConfig[table].key
                    THEN sortConfig'[table].direction # sortConfig[table].direction
                    ELSE sortConfig'[table].direction = "descending"
                 /\ UNCHANGED <<sells, filteredMonth, filteredYear, filteredDay,
                                filteredWeek, startDate, endDate, dashToday, clock>>
                 /\ \A other \in ReportTables \ {table} :
                        sortConfig'[other] = sortConfig[other]]_vars

\* The table that starts on the amount has been toggled to ascending on
\* its key, and the rollup has two rows of equal amount and different
\* quantity: the two rows stand in the order of the rollup, while the table
\* sorted descending by quantity shows them the other way round.
C23_Witness ==
    /\ sortConfig["totalAmount"] = [key |-> "totalAmount", direction |-> "ascending"]
    /\ sortConfig["totalQuantity"] = [key |-> "totalQuantity", direction |-> "descending"]
    /\ Len(aggregatedProductSales) = 2
    /\ aggregatedProductSales[1].totalAmount = aggregatedProductSales[2].totalAmount
    /\ aggregatedProductSales[1].totalQuantity < aggregatedProductSales[2].totalQuantity
    /\ sortedData("totalAmount") = aggregatedProductSales
    /\ sortedData("totalQuantity") =
           <<aggregatedProductSales[2], aggregatedProductSales[1]>>

\* The selections of the sales page: a mode of the filter, and the text of
\* the input of that mode with the two other inputs cleared.
SalesSelections ==
    {<<mode, <<>>, <<>>, <<>>>> : mode \in {"today", "all", "day", "month", "year"}}
    \cup {<<"day", text, <<>>, <<>>>> : text \in DateInputTexts}
    \cup {<<"month", <<>>, text, <<>>>> : text \in MonthInputTexts}
    \cup {<<"year", <<>>, <<>>, text>> : text \in YearInputTexts}

\* A step that is neither a delivery of a snapshot nor an unmount: the
\* pages are rendered again, and their filters evaluated again.
RenderStep == node' = node /\ mounted' = mounted

\* The Date a picker hands over for the day of a Date of the state, at a
\* time of that day.
AsPicked(date, ms) == IF date = NullDate THEN NullDate ELSE [day |-> date.day, ms |-> ms]

\* C24: for every record list and every filter selection, the filter
\* evaluated twice in a row yields the same result set.  On the dashboard
\* the first evaluation writes to the Dates of the range, at whatever time
\* of day they were picked: the second evaluation, which finds the Dates as
\* the first left them, accepts the same records and leaves the Dates as it
\* found them, and it is the list the page shows; the filter of either page
\* applied to its own result gives that result again, for the day of the
\* last evaluation and for the current day; and no step that is not a
\* delivery or an unmount changes a record list: not its length, not its
\* order, not a record.
C24_FilterIdempotent ==
    /\ [](\A startMs, endMs \in PickerTimes, today \in {dashToday, clock} :
             \A picked \in {[start |-> AsPicked(startDate, startMs),
                              end |-> AsPicked(endDate, endMs)]} :
                 \A first \in {FilterSells(sells, filteredMonth, filteredYear,
                                            filteredDay, filteredWeek, picked.start,
                                            picked.end, today)},
                    left \in {RangeDatesAfter(Len(sells), picked.start, picked.end)} :
                     /\ FilterSells(sells, filteredMonth, filteredYear, filteredDay,
                                    filteredWeek, left.start, left.end, today) = first
                     /\ RangeDatesAfter(Len(sells), left.start, left.end) = left
                     /\ FilterSells(first, filteredMonth, filteredYear, filteredDay,
                                    filteredWeek, left.start, left.end, today) = first
                     /\ today = dashToday => filteredSells = first
                     /\ sells # <<>> =>
                            (left.start.day = startDate.day /\ left.end.day = endDate.day))
    /\ [](sells # <<>> =>
             RangeDatesAfter(Len(sells), startDate, endDate)
                 = [start |-> startDate, end |-> endDate])
    /\ [](\A selection \in SalesSelections, today \in {salesToday, clock} :
             \A first \in {FilterSales(sellList, selection[1], selection[2],
                                        selection[3], selection[4], today)} :
                 FilterSales(first, selection[1], selection[2], selection[3],
                             selection[4], today) = first)
    /\ [][RenderStep => sells' = sells /\ sellList' = sellList]_vars

\* A date range is chosen and the filter has been evaluated: the Dates
\* stand at the start and the end of their days.  Of the two records of the
\* list the one sold in the last millisecond of the end day is in view and
\* the other is not, as in an evaluation that finds both Dates at noon.
C24_Witness ==
    /\ startDate # NullDate
    /\ endDate # NullDate
    /\ startDate.ms = MsMidnight
    /\ endDate.ms = MsDayEnd
    /\ Len(sells) = 2
    /\ \E i \in 1..2 :
           /\ parseISO(sells[i].soldAt) = endDate
           /\ filteredSells = <<sells[i]>>
    /\ FilterSells(sells, filteredMonth, filteredYear, filteredDay, filteredWeek,
                   AsPicked(startDate, 43200000), AsPicked(endDate, 43200000),
                   dashToday) = filteredSells
    /\ sellList = sells

\* A record list holds exactly one entry per key of a snapshot, in the
\* order of the keys, each with the values of the snapshot (a number that
\* the snapshot lacks read as 0), and nothing else.
ListIsSnapshot(list, data) ==
    /\ Len(list) = Len(data)
    /\ \A i, j \in 1..Len(list) : i # j => list[i].id # list[j].id
    /\ \A i \in 1..Len(data) :
           /\ list[i].id = data[i].key
           /\ list[i].productId = data[i].value.productId
           /\ list[i].name = data[i].value.name
           /\ list[i].paymentMethod = data[i].value.paymentMethod
           /\ list[i].soldAt = data[i].value.soldAt
           /\ list[i].quantity =
                  (IF data[i].value.quantity = <<>> THEN 0 ELSE data[i].value.quantity[1])
           /\ list[i].finalPriceCharged = data[i].value.finalPriceCharged[1]
           /\ list[i].discount = data[i].value.discount[1]

\* C25: after any sequence of deliveries the record list of each subscribed
\* page is the most recently delivered snapshot and nothing else: one entry
\* per key with the values of that snapshot, and no entry if it was null.
C25_LatestSnapshotWins ==
    /\ []("sales" \in listeners => ListIsSnapshot(sellList, node))
    /\ []("dashboard" \in listeners => ListIsSnapshot(sells, node))
    /\ [][node' # node =>
             /\ "sales" \in listeners => ListIsSnapshot(sellList', node')
             /\ "dashboard" \in listeners => ListIsSnapshot(sells', node')
             /\ node' = <<>> /\ "sales" \in listeners => sellList' = <<>>
             /\ node' = <<>> /\ "dashboard" \in listeners => sells' = <<>>]_vars

\* The record under the first key has been removed: the latest snapshot
\* holds one record, under the second key and without a quantity, and both
\* pages hold that record alone, with the quantity 0.
C25_Witness ==
    /\ Len(node) = 1
    /\ node[1].key = 2
    /\ node[1].value.quantity = <<>>
    /\ Views \subseteq listeners
    /\ Len(sellList) = 1
    /\ sellList[1].id = 2
    /\ sellList[1].quantity = 0
    /\ sells = sellList

\* The record list of a view.
RecordList(view) == IF view = "sales" THEN sellList ELSE sells

\* C26: the subscription of a view is torn down when the view unmounts: the
\* callbacks registered on the node are those of the mounted views, and once
\* a view is unmounted no change of the node calls its callback or changes
\* its record list, however the changes and the unmount interleave.
C26_UnsubscribedOnUnmount ==
    /\ [](listeners = mounted)
    /\ [](\A view \in Views \ mounted : RecordList(view) = <<>>)
    /\ [][\A view \in Views \ mounted :
             node' # node => RecordList(view)' = RecordList(view)]_vars

\* The sales page is unmounted and its callback is gone, while the node
\* holds two records, which the dashboard, still mounted, has received.
C26_Witness ==
    /\ "sales" \notin mounted
    /\ "sales" \notin listeners
    /\ "dashboard" \in listeners
    /\ Len(node) = 2
    /\ Len(sells) = 2
    /\ sellList = <<>>

\* The inputs of each of the three groups of filters of the dashboard that
\* are not at their default.
InputsSet(group) ==
    IF group = "date"
    THEN {input \in {"month", "year", "day"} :
             \/ input = "month" /\ filteredMonth # "All"
             \/ input = "year" /\ filteredYear # "All"
             \/ input = "day" /\ filteredDay # "All"}
    ELSE IF group = "week"
    THEN {input \in {"week"} : filteredWeek # "All"}
    ELSE {input \in {"start", "end"} :
             \/ input = "start" /\ startDate # NullDate
             \/ input = "end" /\ endDate # NullDate}

\* C27: after any sequence of selections on the dashboard, an input of one
\* of the groups {month, year, day}, {week}, {start date, end date} that is
\* not at its default leaves every input of the two other groups at its
\* default, and a day is selected only while a month and a year are.
C27_ThreeFilterGroups ==
    /\ \A group, other \in {"date", "week", "range"} :
           (group # other /\ InputsSet(group) # {}) => InputsSet(other) = {}
    /\ filteredDay # "All" => (filteredMonth # "All" /\ filteredYear # "All")

\* The 28th of February 2026 is selected, with two records delivered: the
\* week and the date range are at their defaults.
C27_Witness ==
    /\ filteredDay = "28"
    /\ filteredMonth = "February"
    /\ filteredYear = "2026"
    /\ InputsSet("date") = {"month", "year", "day"}
    /\ InputsSet("week") = {}
    /\ InputsSet("range") = {}
    /\ Len(sells) = 2

\* A submission is in flight: handleSell has started the store write and
\* has not yet returned.
InFlight == pc # "idle"

\* While a submission is in flight the loading flag is set, the Sell button
\* is disabled and no click on it is possible.
NoSecondClick == InFlight => (isLoading /\ SellButtonDisabled /\ ~ENABLED SellClick)

\* One step, as the submissions see it: none starts while one is in flight,
\* a record is written only by the submission in flight and once, and the
\* submission that wrote a record ends with no draft left to sell again.
OneSubmissionStep ==
    /\ (pc' = "writing" /\ pc # "writing") => (pc = "idle" /\ ~isLoading)
    /\ (InFlight /\ InFlight') => sellData' = sellData
    /\ store' # store =>
           /\ pc = "writing"
           /\ pc' \in {"sending", "idle"}
           /\ store' = Append(store, sellData)
    /\ pc \in {"sending", "answered"} => store' = store
    /\ SaleCompletes => (FormIsReset' /\ ~SellButtonShown' /\ SellButtonDisabled')

\* C28: at most one submission is in flight at any time.  From the start of
\* a valid submission until its store write and notifier call have finished
\* the Sell button cannot be clicked and no second submission starts; the
\* submission writes at most one record, and when it has written one it
\* leaves the form reset, so no sequence of clicks stores two records for
\* one filled-in form.
C28_OneSubmissionInFlight == []NoSecondClick /\ [][OneSubmissionStep]_vars

\* The store write of a submission is pending while the draft is still
\* shown with a valid final price: only the loading flag disables the button.
C28_Witness ==
    /\ pc = "writing"
    /\ isLoading
    /\ SellButtonShown
    /\ finalPriceCharged # EmptyText
    /\ ~FinalPriceInvalid
    /\ SellButtonDisabled
    /\ Settled

\* The sum of the quantities of the rows of the per-product list.
RECURSIVE SumRowQuantity(_)
SumRowQuantity(rows) ==
    IF rows = <<>> THEN 0
    ELSE rows[1].quantity + SumRowQuantity(Tail(rows))

\* C29: on the sales page, for every list of delivered records, legacy
\* records without a quantity included, the quantities of the rows of the
\* per-product list add up to the figure Total Items Sold of the same
\* filtered set.
\* Violated: a record without a quantity is delivered with the quantity 0,
\* which the per-product list counts as 1 and Total Items Sold as 0.
C29_QuantitiesAddUp == SumRowQuantity(productQuantities) = totalItemsSold

\* C30: when a start date is chosen on the dashboard, every record in the
\* current view was sold at or after 00:00:00.000 of the start date, whether
\* or not an end date is chosen; and when an end date is chosen and no start
\* date, no record in view was sold after 23:59:59.999 of the end date.
\* Violated: the range is applied only once both dates are chosen; with one
\* of them chosen the filter counts as active and the view holds every
\* record of the list.
C30_StartDateBoundsView ==
    /\ startDate # NullDate =>
           \A i \in 1..Len(currentViewSells) :
               DateLeq([day |-> startDate.day, ms |-> MsMidnight],
                       parseISO(currentViewSells[i].soldAt))
    /\ (endDate # NullDate /\ startDate = NullDate) =>
           \A i \in 1..Len(currentViewSells) :
               DateLeq(parseISO(currentViewSells[i].soldAt),
                       [day |-> endDate.day, ms |-> MsDayEnd])

====
